---------------------------- MODULE Spec2Model ----------------------------
(***************************************************************************)
(* StaticRTree (include/util/static_rtree.hpp): bulk packing with Hilbert, *)
(* STR and OMT, loading of the two files, SearchInBox and Nearest.         *)
(*                                                                         *)
(* Coordinates are fixed-point integers.  Array positions are 0-based as   *)
(* in the source; a sequence s holds position i at s[i + 1] (At(s, i)).    *)
(* BOOST_ASSERT is compiled out (NDEBUG); an access outside an array or a  *)
(* vector is undefined behaviour and ends the build in a pc that names it. *)
(***************************************************************************)
EXTENDS Integers, Naturals, Sequences, FiniteSets, TLC

\* template parameter BRANCHING_FACTOR, instantiated small
BRANCHING_FACTOR == 3

\* template parameter LEAF_PAGE_SIZE, a power of 2; a LeafNode is aligned to and fills
\* one page, so this is sizeof(LeafNode) too
LEAF_PAGE_SIZE == 64

\* sizeof(uint32_t) + sizeof(Rectangle): object_count and four 32-bit bounds
LeafHeaderBytes == 20

\* sizeof(EdgeDataT) of the edges served: u, v, the forward id with the two enabled bits
SizeofEdge == 12

VARIABLE
    sizeof_EdgeDataT      \* sizeof(EdgeDataT) of the instantiation; fixed for its lifetime

\* LEAF_NODE_SIZE = (LEAF_PAGE_SIZE - sizeof(uint32_t) - sizeof(Rectangle)) / sizeof(EdgeDataT)
LEAF_NODE_SIZE == (LEAF_PAGE_SIZE - LeafHeaderBytes) \div sizeof_EdgeDataT

\* stands for std::numeric_limits<std::int32_t>::max() on the model's grid
INT32_MAX == 1000

\* longest exhaustively enumerated input_data_vector
MaxEdges == 3

\* length of the longer, patterned input vectors
LongLen == 12

\* number of longer input vectors of each length
LongKinds == 2

\* largest max_results passed to Nearest(Q, max_results)
MaxResults == 3

\* deepest halving of a tbb::blocked_range by the partitioner
MaxSplit == 1

---------------------------------------------------------------------------
(* Sequences, 0-based *)

At(s, i) == s[i + 1]

\* positions [l, r) of s
Slice(s, l, r) == IF r <= l THEN << >> ELSE SubSeq(s, l + 1, r)

\* s with positions [l, l + Len(t)) replaced by t
Splice(s, l, t) == [k \in 1..Len(s) |-> IF k > l /\ k <= l + Len(t) THEN t[k - l] ELSE s[k]]

Reverse(s) == [k \in 1..Len(s) |-> s[Len(s) + 1 - k]]

Min2(a, b) == IF a < b THEN a ELSE b

Max2(a, b) == IF a < b THEN b ELSE a

Abs(a) == IF a < 0 THEN -a ELSE a

\* C++ integer division, truncating toward zero
TruncDiv(a, b) == IF a >= 0 THEN a \div b ELSE -((-a) \div b)

\* ceil(a / b) for a >= 0, b > 0
CeilDiv(a, b) == (a + b - 1) \div b

RECURSIVE Pow(_, _)
Pow(b, e) == IF e <= 0 THEN 1 ELSE b * Pow(b, e - 1)

RECURSIVE CeilLog(_, _, _)
\* least h >= k with b^h >= n: std::ceil(std::log(n) / std::log(b))
CeilLog(n, b, k) == IF Pow(b, k) >= n THEN k ELSE CeilLog(n, b, k + 1)

RECURSIVE ISqrtFrom(_, _)
ISqrtFrom(n, k) == IF (k + 1) * (k + 1) > n THEN k ELSE ISqrtFrom(n, k + 1)

\* floor(sqrt(n)): std::sqrt converted to std::size_t
FloorSqrt(n) == ISqrtFrom(n, 0)

\* std::ceil(std::sqrt(n))
CeilSqrt(n) == IF FloorSqrt(n) * FloorSqrt(n) = n THEN FloorSqrt(n) ELSE FloorSqrt(n) + 1

\* std::round(p / q), q > 0: halves away from zero
RoundDiv(p, q) == IF p >= 0 THEN (2 * p + q) \div (2 * q) ELSE -((2 * (-p) + q) \div (2 * q))

---------------------------------------------------------------------------
(* Projection, rectangles, distances (util/web_mercator.hpp,               *)
(* util/rectangle.hpp, util/coordinate_calculation.hpp, hilbert_value.hpp) *)

Coord(lon, lat) == [lon |-> lon, lat |-> lat]

\* web_mercator::latToY on the fixed-point grid: odd, strictly increasing, not linear
latToY(lat) == IF lat >= 0 THEN lat + (lat * lat) \div 2 ELSE -((-lat) + (lat * lat) \div 2)

\* web_mercator::fromWGS84: x = lon, y = latToY(lat)
fromWGS84(c) == Coord(c.lon, latToY(c.lat))

\* coordinate_calculation::centroid
centroid(a, b) == Coord(TruncDiv(a.lon + b.lon, 2), TruncDiv(a.lat + b.lat, 2))

Rect(min_lon, max_lon, min_lat, max_lat) == [min_lon |-> min_lon, max_lon |-> max_lon, min_lat |-> min_lat, max_lat |-> max_lat]

\* RectangleInt2D(): the empty rectangle of sentinel extrema
EmptyRect == Rect(INT32_MAX, -INT32_MAX, INT32_MAX, -INT32_MAX)

\* RectangleInt2D::Extend(lon, lat)
ExtendPoint(r, c) == Rect(Min2(r.min_lon, c.lon), Max2(r.max_lon, c.lon), Min2(r.min_lat, c.lat), Max2(r.max_lat, c.lat))

\* RectangleInt2D::MergeBoundingBoxes and Extend(rect)
MergeBoundingBoxes(r, o) == Rect(Min2(r.min_lon, o.min_lon), Max2(r.max_lon, o.max_lon), Min2(r.min_lat, o.min_lat), Max2(r.max_lat, o.max_lat))

\* RectangleInt2D::Intersects
Intersects(r, o) == ~(r.max_lon < o.min_lon \/ r.min_lon > o.max_lon \/ r.max_lat < o.min_lat \/ r.min_lat > o.max_lat)

\* RectangleInt2D::Centroid
RectCentroid(r) == Coord(TruncDiv(r.min_lon + r.max_lon, 2), TruncDiv(r.min_lat + r.max_lat, 2))

\* coordinate_calculation::squaredEuclideanDistance on fixed coordinates
squaredEuclideanDistance(a, b) == (a.lon - b.lon) * (a.lon - b.lon) + (a.lat - b.lat) * (a.lat - b.lat)

\* RectangleInt2D::GetMinSquaredDist: 0 inside, else to the nearest side or corner
GetMinSquaredDist(r, c) ==
    LET dx == Max2(0, Max2(r.min_lon - c.lon, c.lon - r.max_lon))
        dy == Max2(0, Max2(r.min_lat - c.lat, c.lat - r.max_lat))
    IN dx * dx + dy * dy

\* coordinate_calculation::projectPointOnSegment followed by Coordinate{...}:
\* the foot of the perpendicular, clamped to the segment, rounded to the grid
projectPointOnSegment(a, b, p) ==
    LET sx == b.lon - a.lon
        sy == b.lat - a.lat
        num == sx * (p.lon - a.lon) + sy * (p.lat - a.lat)
        den == sx * sx + sy * sy
    IN IF den = 0 THEN a
       ELSE IF num <= 0 THEN a
       ELSE IF num >= den THEN b
       ELSE Coord(RoundDiv(a.lon * den + sx * num, den), RoundDiv(a.lat * den + sy * num, den))

\* side of the grid the Hilbert curve runs over (a power of two)
HilbertSide == 32

RECURSIVE HilbertD(_, _, _, _)
\* the curve position of (x, y) on a grid of side 2 * s, quadrant by quadrant
HilbertD(s, x, y, d) ==
    IF s = 0 THEN d
    ELSE LET rx == IF (x \div s) % 2 = 1 THEN 1 ELSE 0
             ry == IF (y \div s) % 2 = 1 THEN 1 ELSE 0
             xm == x % s
             ym == y % s
             x1 == IF ry = 0 THEN (IF rx = 1 THEN s - 1 - ym ELSE ym) ELSE xm
             y1 == IF ry = 0 THEN (IF rx = 1 THEN s - 1 - xm ELSE xm) ELSE ym
         IN HilbertD(s \div 2, x1, y1, d + s * s * ((3 * rx + ry - 2 * rx * ry)))

\* GetHilbertCode: the coordinate shifted to be non-negative, then the curve position
GetHilbertCode(c) == HilbertD(HilbertSide \div 2, (c.lon + HilbertSide \div 2) % HilbertSide, (c.lat + HilbertSide \div 2) % HilbertSide, 0)

---------------------------------------------------------------------------
(* Data: edges, tree nodes, leaves *)

\* the caller's coordinate table (geographic, fixed-point), positions 0..
CoordTable == << Coord(0, 0), Coord(2, 0), Coord(0, 2), Coord(2, 2), Coord(4, 4) >>

\* EdgeDataT: endpoints u, v; forward_segment_id.id and the two enabled bits
Edge(u, v, id, fwd, rev) == [u |-> u, v |-> v, id |-> id, fwd |-> fwd, rev |-> rev]

\* EdgeDataT(): a value-initialised slot of LeafNode::objects
DefaultEdge == Edge(0, 0, 0, FALSE, FALSE)

\* the endpoint pairs and enabled bits the input edges are drawn from
EdgeShapes == << [u |-> 0, v |-> 1, fwd |-> TRUE, rev |-> TRUE], [u |-> 2, v |-> 3, fwd |-> TRUE, rev |-> FALSE], [u |-> 0, v |-> 2, fwd |-> FALSE, rev |-> TRUE], [u |-> 3, v |-> 4, fwd |-> TRUE, rev |-> TRUE] >>

\* an input vector: position i (0-based) holds the edge with id i and the i-th chosen shape
InputOf(shapes) == [i \in 1..Len(shapes) |-> Edge(EdgeShapes[shapes[i]].u, EdgeShapes[shapes[i]].v, i - 1, EdgeShapes[shapes[i]].fwd, EdgeShapes[shapes[i]].rev)]

\* every input vector of at most MaxEdges edges
ShortInputs == UNION {{InputOf(f) : f \in [1..n -> 1..Len(EdgeShapes)]} : n \in 0..MaxEdges}

\* longer input vectors, the shapes following a pattern of stride k
LongInputs == {InputOf([i \in 1..n |-> ((i * k + k - 1) % Len(EdgeShapes)) + 1]) : n \in (MaxEdges + 1)..LongLen, k \in 1..LongKinds}

Inputs == ShortInputs \cup LongInputs

\* TreeIndex: 31-bit index and the is_leaf bit
TreeIndex(index, is_leaf) == [index |-> index, is_leaf |-> is_leaf]

\* TreeIndex(): index 0, not a leaf
DefaultTreeIndex == TreeIndex(0, FALSE)

\* TreeNode(): child_count 0, empty rectangle, BRANCHING_FACTOR children
NewTreeNode == [child_count |-> 0, minimum_bounding_rectangle |-> EmptyRect, children |-> [k \in 1..BRANCHING_FACTOR |-> DefaultTreeIndex]]

\* LeafNode(): object_count 0, empty rectangle, LEAF_NODE_SIZE objects
NewLeafNode == [object_count |-> 0, minimum_bounding_rectangle |-> EmptyRect, objects |-> [k \in 1..LEAF_NODE_SIZE |-> DefaultEdge]]

\* the projected endpoints of an edge: fromWGS84(m_coordinate_list[edge.u / v])
ProjectedU(cl, e) == fromWGS84(At(cl, e.u))

ProjectedV(cl, e) == fromWGS84(At(cl, e.v))

\* the edge's centroid in geographic coordinates
EdgeCentroid(cl, e) == centroid(At(cl, e.u), At(cl, e.v))

---------------------------------------------------------------------------
(* Sorting.  tbb::parallel_sort and std::sort are not stable: elements     *)
(* with equal keys end in an unspecified order.  tie = FALSE keeps their   *)
(* prior order, tie = TRUE reverses it.                                    *)

\* x put into the sorted sequence s of [k, v] records
InsertSorted(s, x, tieRev) ==
    LET before == Cardinality({i \in 1..Len(s) : IF tieRev THEN s[i].k < x.k ELSE ~(x.k < s[i].k)})
    IN SubSeq(s, 1, before) \o << x >> \o SubSeq(s, before + 1, Len(s))

RECURSIVE SortPairs(_, _)
SortPairs(s, tieRev) == IF s = << >> THEN << >> ELSE InsertSorted(SortPairs(SubSeq(s, 1, Len(s) - 1), tieRev), s[Len(s)], tieRev)

\* the values of s in non-decreasing order of keys[i]
SortedBy(s, keys, tieRev) == LET p == SortPairs([i \in 1..Len(s) |-> [k |-> keys[i], v |-> s[i]]], tieRev) IN [i \in 1..Len(s) |-> p[i].v]

---------------------------------------------------------------------------
(* State *)

VARIABLES
    input_data_vector,    \* the edges given to the building constructor
    packing_method,       \* "Hilbert", "STR" or "OMT"
    tie,                  \* the order the sorts of this build leave equal keys in
    split,                \* how deep the partitioner halves a blocked_range
    m_coordinate_list,    \* the borrowed coordinate table
    pc,                   \* where the builder, the loader or a query stands
    leaves,               \* the builder's working copy of the edges (copy / leaves)
    queue,                \* OMT: the queue of Range(parent, left, right, height)
    tree_nodes_in_level,  \* Hilbert, STR: the nodes of the level being packed
    m_search_tree,        \* the builder's node vector
    m_leaves,             \* the builder's view of the mapped leaf file
    leaf_node_file,       \* the leaf file: the LeafNodes written so far
    tree_node_file,       \* the node file: << >> or << [count, nodes] >>
    leaf_file_excess,     \* bytes of the leaf file after its last whole LeafNode
    o_search_tree,        \* node vector of the instance made by the loading constructor
    o_leaves,             \* its view of the mapped leaf file
    query,                \* the last query on the loaded instance and its outcome
    callers               \* the queries several threads have in flight on the loaded instance

vars == << sizeof_EdgeDataT, input_data_vector, packing_method, tie, split, m_coordinate_list, pc, leaves, queue, tree_nodes_in_level, m_search_tree, m_leaves, leaf_node_file, tree_node_file, leaf_file_excess, o_search_tree, o_leaves, query, callers >>

\* what a build never changes
buildInputs == << sizeof_EdgeDataT, input_data_vector, packing_method, tie, split, m_coordinate_list >>

\* what no step of a build touches: the bytes a later cut leaves at the end of the leaf
\* file, the loaded instance and the queries on it
loaded == << leaf_file_excess, o_search_tree, o_leaves, query, callers >>

NoQuery == [kind |-> "none"]

\* the threads that share the loaded instance
Callers == {"a", "b"}

\* a thread with no query in flight
Idle == [phase |-> "idle"]

PackingMethods == {"Hilbert", "STR", "OMT"}

\* the building constructor is entered with its arguments, nothing done yet
Entered ==
    /\ input_data_vector \in Inputs
    /\ packing_method \in PackingMethods
    /\ tie \in BOOLEAN
    /\ split \in 0..MaxSplit
    /\ (packing_method # "STR" => split = 0)
    /\ m_coordinate_list = CoordTable
    /\ pc = "start"
    /\ leaves = << >>
    /\ queue = << >>
    /\ tree_nodes_in_level = << >>
    /\ m_search_tree = << >>
    /\ m_leaves = << >>
    /\ leaf_node_file = << >>
    /\ tree_node_file = << >>
    /\ leaf_file_excess = 0
    /\ o_search_tree = << >>
    /\ o_leaves = << >>
    /\ query = NoQuery
    /\ callers = [c \in Callers |-> Idle]

Init ==
    /\ sizeof_EdgeDataT = SizeofEdge
    /\ Entered

---------------------------------------------------------------------------
(* Hilbert and STR: packing edges into leaves, leaves into nodes *)

RECURSIVE ObjectLoopOffByOne(_, _, _, _, _)
\* a variant of ObjectLoop that records the last slot's index as the leaf's object_count
ObjectLoopOffByOne(cl, ordered, current_leaf, object_index, wrapped_element_index) ==
    IF object_index < LEAF_NODE_SIZE /\ wrapped_element_index < Len(ordered)
    THEN LET object == At(ordered, wrapped_element_index)
             pu == ProjectedU(cl, object)
             pv == ProjectedV(cl, object)
             r == current_leaf.minimum_bounding_rectangle
             grown == Rect(Min2(r.min_lon, Min2(pu.lon, pv.lon)), Max2(r.max_lon, Max2(pu.lon, pv.lon)), Min2(r.min_lat, Min2(pu.lat, pv.lat)), Max2(r.max_lat, Max2(pu.lat, pv.lat)))
             next == [object_count |-> object_index, minimum_bounding_rectangle |-> grown, objects |-> [current_leaf.objects EXCEPT ![object_index + 1] = object]]
         IN ObjectLoopOffByOne(cl, ordered, next, object_index + 1, wrapped_element_index + 1)
    ELSE [leaf |-> current_leaf, wrapped |-> wrapped_element_index]

RECURSIVE ObjectLoop(_, _, _, _, _)
\* the object_index loop: copies edges into current_leaf and grows its rectangle
ObjectLoop(cl, ordered, current_leaf, object_index, wrapped_element_index) ==
    IF object_index < LEAF_NODE_SIZE /\ wrapped_element_index < Len(ordered)
    THEN LET object == At(ordered, wrapped_element_index)
             pu == ProjectedU(cl, object)
             pv == ProjectedV(cl, object)
             r == current_leaf.minimum_bounding_rectangle
             grown == Rect(Min2(r.min_lon, Min2(pu.lon, pv.lon)), Max2(r.max_lon, Max2(pu.lon, pv.lon)), Min2(r.min_lat, Min2(pu.lat, pv.lat)), Max2(r.max_lat, Max2(pu.lat, pv.lat)))
             next == [object_count |-> current_leaf.object_count + 1, minimum_bounding_rectangle |-> grown, objects |-> [current_leaf.objects EXCEPT ![object_index + 1] = object]]
         IN ObjectLoop(cl, ordered, next, object_index + 1, wrapped_element_index + 1)
    ELSE [leaf |-> current_leaf, wrapped |-> wrapped_element_index]

RECURSIVE LeafLoopLocalIndex(_, _, _, _, _, _, _)
\* a variant of LeafLoop that numbers the leaves of each node from 0
LeafLoopLocalIndex(cl, ordered, current_node, file, node_index, leaf_index, wrapped_element_index) ==
    IF leaf_index < BRANCHING_FACTOR /\ wrapped_element_index < Len(ordered)
    THEN LET o == ObjectLoop(cl, ordered, NewLeafNode, 0, wrapped_element_index)
             next == [child_count |-> current_node.child_count + 1, minimum_bounding_rectangle |-> MergeBoundingBoxes(current_node.minimum_bounding_rectangle, o.leaf.minimum_bounding_rectangle), children |-> [current_node.children EXCEPT ![leaf_index + 1] = TreeIndex(leaf_index, TRUE)]]
         IN LeafLoopLocalIndex(cl, ordered, next, Append(file, o.leaf), node_index, leaf_index + 1, o.wrapped)
    ELSE [node |-> current_node, file |-> file, wrapped |-> wrapped_element_index]

RECURSIVE LeafLoop(_, _, _, _, _, _, _)
\* the leaf_index loop: one leaf per pass, appended to current_node and written to the file
LeafLoop(cl, ordered, current_node, file, node_index, leaf_index, wrapped_element_index) ==
    IF leaf_index < BRANCHING_FACTOR /\ wrapped_element_index < Len(ordered)
    THEN LET o == ObjectLoop(cl, ordered, NewLeafNode, 0, wrapped_element_index)
             next == [child_count |-> current_node.child_count + 1, minimum_bounding_rectangle |-> MergeBoundingBoxes(current_node.minimum_bounding_rectangle, o.leaf.minimum_bounding_rectangle), children |-> [current_node.children EXCEPT ![leaf_index + 1] = TreeIndex(node_index * BRANCHING_FACTOR + leaf_index, TRUE)]]
         IN LeafLoop(cl, ordered, next, Append(file, o.leaf), node_index, leaf_index + 1, o.wrapped)
    ELSE [node |-> current_node, file |-> file, wrapped |-> wrapped_element_index]

RECURSIVE NodeLoop(_, _, _, _, _, _)
\* the node_index loop: one bottom tree node per pass
NodeLoop(cl, ordered, level, file, node_index, wrapped_element_index) ==
    IF wrapped_element_index < Len(ordered)
    THEN LET l == LeafLoop(cl, ordered, NewTreeNode, file, node_index, 0, wrapped_element_index)
         IN NodeLoop(cl, ordered, Append(level, l.node), l.file, node_index + 1, l.wrapped)
    ELSE [level |-> level, file |-> file]

\* the whole leaf packing of the edges in their sorted order
PackLeaves(cl, ordered) == NodeLoop(cl, ordered, << >>, << >>, 0, 0)

RECURSIVE ChildLoop(_, _, _, _, _)
\* the current_child_node_index loop: up to BRANCHING_FACTOR nodes of the level go under parent_node
ChildLoop(level, parent_node, tree, processed, current_child_node_index) ==
    IF current_child_node_index < BRANCHING_FACTOR
    THEN IF processed < Len(level)
         THEN LET current_child_node == At(level, processed)
                  next == [child_count |-> parent_node.child_count + 1, minimum_bounding_rectangle |-> MergeBoundingBoxes(parent_node.minimum_bounding_rectangle, current_child_node.minimum_bounding_rectangle), children |-> [parent_node.children EXCEPT ![current_child_node_index + 1] = TreeIndex(Len(tree), FALSE)]]
              IN ChildLoop(level, next, Append(tree, current_child_node), processed + 1, current_child_node_index + 1)
         ELSE ChildLoop(level, parent_node, tree, processed, current_child_node_index + 1)
    ELSE [parent |-> parent_node, tree |-> tree, processed |-> processed]

RECURSIVE ParentLoop(_, _, _, _)
\* the processed_tree_nodes_in_level loop: one parent per pass
ParentLoop(level, next_level, tree, processed) ==
    IF processed < Len(level)
    THEN LET c == ChildLoop(level, NewTreeNode, tree, processed, 0)
         IN ParentLoop(level, Append(next_level, c.parent), c.tree, c.processed)
    ELSE [level |-> next_level, tree |-> tree]

\* one pass of the level loop over an already ordered level
PackLevel(level, tree) == ParentLoop(level, << >>, tree, 0)

\* a variant of Renumber that keeps the indices the children had before std::reverse
RenumberSkipped(tree) == tree

\* the renumbering after std::reverse: new_id = search_tree_size - old_id - 1 for non-leaf children
Renumber(tree) ==
    [i \in 1..Len(tree) |-> [tree[i] EXCEPT !.children = [j \in 1..BRANCHING_FACTOR |-> IF j <= tree[i].child_count /\ ~tree[i].children[j].is_leaf THEN TreeIndex(Len(tree) - tree[i].children[j].index - 1, FALSE) ELSE tree[i].children[j]]]]

\* reverse and renumber tree to have root at index 0
ReverseAndRenumber(tree) == Renumber(Reverse(tree))

\* WriteOne(size_of_tree), WriteFrom(&m_search_tree[0], size_of_tree)
NodeFileOf(tree) == << [count |-> Len(tree), nodes |-> tree] >>

---------------------------------------------------------------------------
(* PackWithHilbert *)

\* the Hilbert value of an edge: its centroid, latitude re-projected by latToY
HilbertValue(cl, e) == GetHilbertCode(Coord(EdgeCentroid(cl, e).lon, latToY(EdgeCentroid(cl, e).lat)))

\* input_wrapper_vector after parallel_sort, read back through m_array_index
HilbertOrder(cl, input, tieRev) == SortedBy(input, [i \in 1..Len(input) |-> HilbertValue(cl, input[i])], tieRev)

\* the Hilbert values are computed and the wrappers sorted
HilbertSort ==
    /\ pc = "start"
    /\ packing_method = "Hilbert"
    /\ leaves' = HilbertOrder(m_coordinate_list, input_data_vector, tie)
    /\ pc' = "pack"
    /\ UNCHANGED << buildInputs, queue, tree_nodes_in_level, m_search_tree, m_leaves, leaf_node_file, tree_node_file, loaded >>

\* the leaves are filled, written to the leaf file and hung under the bottom nodes
HilbertPackLeaves ==
    /\ pc = "pack"
    /\ packing_method = "Hilbert"
    /\ LET p == PackLeaves(m_coordinate_list, leaves)
       IN /\ tree_nodes_in_level' = p.level
          /\ leaf_node_file' = p.file
    /\ pc' = "levels"
    /\ UNCHANGED << buildInputs, leaves, queue, m_search_tree, m_leaves, tree_node_file, loaded >>

\* one pass of while (1 < tree_nodes_in_level.size())
HilbertLevel ==
    /\ pc = "levels"
    /\ packing_method = "Hilbert"
    /\ 1 < Len(tree_nodes_in_level)
    /\ LET p == PackLevel(tree_nodes_in_level, m_search_tree)
       IN /\ tree_nodes_in_level' = p.level
          /\ m_search_tree' = p.tree
    /\ UNCHANGED << buildInputs, pc, leaves, queue, m_leaves, leaf_node_file, tree_node_file, loaded >>

\* the root is stored, the tree reversed, renumbered and written, the leaf file mapped;
\* with no node in the level, tree_nodes_in_level[0] reads an empty vector
HilbertFinish ==
    /\ pc = "levels"
    /\ packing_method = "Hilbert"
    /\ Len(tree_nodes_in_level) <= 1
    /\ IF Len(tree_nodes_in_level) = 0
       THEN /\ pc' = "ub_empty_level"
            /\ UNCHANGED << m_search_tree, tree_node_file, m_leaves >>
       ELSE /\ m_search_tree' = ReverseAndRenumber(Append(m_search_tree, tree_nodes_in_level[1]))
            /\ tree_node_file' = NodeFileOf(m_search_tree')
            /\ m_leaves' = leaf_node_file
            /\ pc' = "built"
    /\ UNCHANGED << buildInputs, leaves, queue, tree_nodes_in_level, leaf_node_file, loaded >>

---------------------------------------------------------------------------
(* PackWithSTR *)

RECURSIVE Chunks(_, _, _, _)
\* the subranges the body of tbb::parallel_for runs on: blocked_range [b, e) halved
\* while is_divisible (grainsize < size) and the partitioner goes on, to depth d
Chunks(b, e, grainsize, d) ==
    IF d > 0 /\ grainsize < e - b
    THEN Chunks(b, b + (e - b) \div 2, grainsize, d - 1) \cup Chunks(b + (e - b) \div 2, e, grainsize, d - 1)
    ELSE {<< b, e >>}

RECURSIVE SortChunks(_, _, _, _)
\* each chunk of s sorted on its own by keys; the chunks are disjoint
SortChunks(s, keys, chunks, tieRev) ==
    IF chunks = {} THEN s
    ELSE LET c == CHOOSE x \in chunks : TRUE
             part == SortedBy(Slice(s, c[1], c[2]), Slice(keys, c[1], c[2]), tieRev)
         IN SortChunks(Splice(s, c[1], part), keys, chunks \ {c}, tieRev)

\* sort by the first key, then each slice of the blocked_range by the second
SortTile(s, xkey, ykey, grainsize, depth, tieRev) ==
    LET byX == SortedBy(s, xkey, tieRev)
        kx == SortedBy(ykey, xkey, tieRev)
    IN IF Len(s) = 0 THEN s ELSE SortChunks(byX, kx, Chunks(0, Len(s), grainsize, depth), tieRev)

\* leaf_K = std::sqrt(copy.size() / LEAF_NODE_SIZE), the grainsize of the range
LeafK(n) == FloorSqrt(n \div LEAF_NODE_SIZE)

\* tree_K = std::sqrt(tree_nodes_in_level.size() / BRANCHING_FACTOR)
TreeK(n) == FloorSqrt(n \div BRANCHING_FACTOR)

\* the copy sorted by centroid longitude, its slices by centroid latitude
STROrder(cl, input, depth, tieRev) ==
    SortTile(input, [i \in 1..Len(input) |-> EdgeCentroid(cl, input[i]).lon], [i \in 1..Len(input) |-> EdgeCentroid(cl, input[i]).lat], LeafK(Len(input)), depth, tieRev)

\* a level sorted by the centroids of the nodes' rectangles
STRLevelOrder(level, depth, tieRev) ==
    SortTile(level, [i \in 1..Len(level) |-> RectCentroid(level[i].minimum_bounding_rectangle).lon], [i \in 1..Len(level) |-> RectCentroid(level[i].minimum_bounding_rectangle).lat], TreeK(Len(level)), depth, tieRev)

STRSort ==
    /\ pc = "start"
    /\ packing_method = "STR"
    /\ leaves' = STROrder(m_coordinate_list, input_data_vector, split, tie)
    /\ pc' = "pack"
    /\ UNCHANGED << buildInputs, queue, tree_nodes_in_level, m_search_tree, m_leaves, leaf_node_file, tree_node_file, loaded >>

STRPackLeaves ==
    /\ pc = "pack"
    /\ packing_method = "STR"
    /\ LET p == PackLeaves(m_coordinate_list, leaves)
       IN /\ tree_nodes_in_level' = p.level
          /\ leaf_node_file' = p.file
    /\ pc' = "levels"
    /\ UNCHANGED << buildInputs, leaves, queue, m_search_tree, m_leaves, tree_node_file, loaded >>

\* one pass of while (tree_nodes_in_level.size() > 1): sort, tile, pack
STRLevel ==
    /\ pc = "levels"
    /\ packing_method = "STR"
    /\ Len(tree_nodes_in_level) > 1
    /\ LET p == PackLevel(STRLevelOrder(tree_nodes_in_level, split, tie), m_search_tree)
       IN /\ tree_nodes_in_level' = p.level
          /\ m_search_tree' = p.tree
    /\ UNCHANGED << buildInputs, pc, leaves, queue, m_leaves, leaf_node_file, tree_node_file, loaded >>

STRFinish ==
    /\ pc = "levels"
    /\ packing_method = "STR"
    /\ Len(tree_nodes_in_level) <= 1
    /\ IF Len(tree_nodes_in_level) = 0
       THEN /\ pc' = "ub_empty_level"
            /\ UNCHANGED << m_search_tree, tree_node_file, m_leaves >>
       ELSE /\ m_search_tree' = ReverseAndRenumber(Append(m_search_tree, tree_nodes_in_level[1]))
            /\ tree_node_file' = NodeFileOf(m_search_tree')
            /\ m_leaves' = leaf_node_file
            /\ pc' = "built"
    /\ UNCHANGED << buildInputs, leaves, queue, tree_nodes_in_level, leaf_node_file, loaded >>

---------------------------------------------------------------------------
(* PackWithOMT *)

Range(parent, left, right, height) == [parent |-> parent, left |-> left, right |-> right, height |-> height]

\* longitude_compare and latitude_compare order edges by their geographic centroid
LonKeys(cl, s) == [i \in 1..Len(s) |-> EdgeCentroid(cl, s[i]).lon]

LatKeys(cl, s) == [i \in 1..Len(s) |-> EdgeCentroid(cl, s[i]).lat]

\* std::sort of positions [l, r) of s by longitude / latitude
SortRangeLon(cl, s, l, r, tieRev) == Splice(s, l, SortedBy(Slice(s, l, r), LonKeys(cl, Slice(s, l, r)), tieRev))

SortRangeLat(cl, s, l, r, tieRev) == Splice(s, l, SortedBy(Slice(s, l, r), LatKeys(cl, Slice(s, l, r)), tieRev))

\* auto N = r.right - r.left + 1
RangeN(r) == r.right - r.left + 1

RECURSIVE LeafRect(_, _, _, _)
\* std::for_each over objects[0, object_count): Extend by both projected endpoints
LeafRect(cl, objects, object_count, rect) ==
    IF object_count = 0 THEN rect
    ELSE LeafRect(cl, Slice(objects, 1, Len(objects)), object_count - 1, ExtendPoint(ExtendPoint(rect, ProjectedU(cl, objects[1])), ProjectedV(cl, objects[1])))

\* a variant of OMTLeafOf that counts N objects, one more than it copies
OMTLeafOfCountN(cl, work, r) ==
    LET copied == Slice(work, r.left, r.right)
        objects == [k \in 1..LEAF_NODE_SIZE |-> IF k <= Len(copied) THEN copied[k] ELSE DefaultEdge]
    IN [object_count |-> RangeN(r), minimum_bounding_rectangle |-> LeafRect(cl, objects, RangeN(r), EmptyRect), objects |-> objects]

\* current_leaf of a range: object_count = N - 1, edges [left, right) copied to objects.begin()
OMTLeafOf(cl, work, r) ==
    LET copied == Slice(work, r.left, r.right)
        objects == [k \in 1..LEAF_NODE_SIZE |-> IF k <= Len(copied) THEN copied[k] ELSE DefaultEdge]
    IN [object_count |-> RangeN(r) - 1, minimum_bounding_rectangle |-> LeafRect(cl, objects, RangeN(r) - 1, EmptyRect), objects |-> objects]

\* a variant of Attach that leaves the parent's rectangle as it was
AttachUngrown(node, child, rect) ==
    [child_count |-> node.child_count + 1, minimum_bounding_rectangle |-> node.minimum_bounding_rectangle, children |-> [node.children EXCEPT ![node.child_count + 1] = child]]

\* a variant of Attach that writes the child but does not count it
AttachUncounted(node, child, rect) ==
    [child_count |-> node.child_count, minimum_bounding_rectangle |-> MergeBoundingBoxes(node.minimum_bounding_rectangle, rect), children |-> [node.children EXCEPT ![node.child_count + 1] = child]]

\* children[child_count] = child, ++child_count (the rectangle grown by rect)
Attach(node, child, rect) ==
    [child_count |-> node.child_count + 1, minimum_bounding_rectangle |-> MergeBoundingBoxes(node.minimum_bounding_rectangle, rect), children |-> [node.children EXCEPT ![node.child_count + 1] = child]]

\* the height of the first item: std::ceil(std::log(N) / std::log(M))
OMTHeight(N) == CeilLog(N, BRANCHING_FACTOR, 0)

\* M of a range past the leaf test: the root's is std::ceil(N / std::pow(M, height - 1))
OMTFanout(r) == IF r.height = 0 THEN CeilDiv(RangeN(r), Pow(BRANCHING_FACTOR, OMTHeight(RangeN(r)) - 1)) ELSE BRANCHING_FACTOR

\* N2 = std::ceil(N / M), N / M being an integer division
OMTN2(r) == RangeN(r) \div OMTFanout(r)

\* N1 = N2 * std::ceil(std::sqrt(M))
OMTN1(r) == OMTN2(r) * CeilSqrt(OMTFanout(r))

RECURSIVE GroupLoop(_, _, _, _, _, _)
\* for (j = i; j <= right2; j += N2) queue.emplace(node, j, min(j + N2 - 1, right2), height - 1)
GroupLoop(q, node, j, right2, N2, height) ==
    IF j <= right2
    THEN GroupLoop(Append(q, Range(node, j, Min2(j + N2 - 1, right2), height - 1)), node, j + N2, right2, N2, height)
    ELSE q

RECURSIVE SlabLoop(_, _, _, _, _, _, _, _, _, _)
\* for (i = r.left; i < r.right; i += N1): the slab [i, right2) sorted by latitude, then grouped
SlabLoop(cl, work, q, node, i, right, N1, N2, height, tieRev) ==
    IF i < right
    THEN LET right2 == Min2(i + N1 - 1, right)
         IN SlabLoop(cl, SortRangeLat(cl, work, i, right2, tieRev), GroupLoop(q, node, i, right2, N2, height), node, i + N1, right, N1, N2, height, tieRev)
    ELSE [work |-> work, queue |-> q]

\* queue.emplace(0, 0, leaves.size(), 0) on a copy of the input
OMTBegin ==
    /\ pc = "start"
    /\ packing_method = "OMT"
    /\ leaves' = input_data_vector
    /\ queue' = << Range(0, 0, Len(input_data_vector), 0) >>
    /\ pc' = "omt"
    /\ UNCHANGED << buildInputs, tree_nodes_in_level, m_search_tree, m_leaves, leaf_node_file, tree_node_file, loaded >>

\* a dequeued range with N <= M: one leaf is written and attached to m_search_tree[r.parent].
\* Copying more than LEAF_NODE_SIZE edges, a parent outside the vector and a write to
\* children[BRANCHING_FACTOR] are undefined behaviour.
OMTLeaf ==
    /\ pc = "omt"
    /\ queue # << >>
    /\ LET r == Head(queue)
       IN /\ RangeN(r) <= BRANCHING_FACTOR
          /\ queue' = Tail(queue)
          /\ IF r.right - r.left > LEAF_NODE_SIZE
             THEN /\ pc' = "ub_leaf_overflow"
                  /\ UNCHANGED << leaf_node_file, m_search_tree >>
             ELSE /\ leaf_node_file' = Append(leaf_node_file, OMTLeafOf(m_coordinate_list, leaves, r))
                  /\ IF r.parent >= Len(m_search_tree) \/ At(m_search_tree, r.parent).child_count >= BRANCHING_FACTOR
                     THEN /\ pc' = IF r.parent >= Len(m_search_tree) THEN "ub_no_parent" ELSE "ub_children_overflow"
                          /\ UNCHANGED m_search_tree
                     ELSE /\ m_search_tree' = [m_search_tree EXCEPT ![r.parent + 1] = Attach(@, TreeIndex(Len(leaf_node_file), TRUE), OMTLeafOf(m_coordinate_list, leaves, r).minimum_bounding_rectangle)]
                          /\ pc' = "omt"
    /\ UNCHANGED << buildInputs, leaves, tree_nodes_in_level, m_leaves, tree_node_file, loaded >>

\* a dequeued range with N > M: a node is pushed, linked to its parent unless height = 0,
\* the range sorted by longitude, tiled, and the groups enqueued
OMTNode ==
    /\ pc = "omt"
    /\ queue # << >>
    /\ LET r == Head(queue)
           pushed == Append(m_search_tree, NewTreeNode)
           linked == IF r.height = 0 THEN pushed ELSE [pushed EXCEPT ![r.parent + 1] = Attach(@, TreeIndex(Len(pushed) - 1, FALSE), EmptyRect)]
           height == IF r.height = 0 THEN OMTHeight(RangeN(r)) ELSE r.height
           s == SlabLoop(m_coordinate_list, SortRangeLon(m_coordinate_list, leaves, r.left, r.right, tie), Tail(queue), Len(pushed) - 1, r.left, r.right, OMTN1(r), OMTN2(r), height, tie)
       IN /\ RangeN(r) > BRANCHING_FACTOR
          /\ IF r.height # 0 /\ At(pushed, r.parent).child_count >= BRANCHING_FACTOR
             THEN /\ pc' = "ub_children_overflow"
                  /\ queue' = Tail(queue)
                  /\ m_search_tree' = pushed
                  /\ UNCHANGED leaves
             ELSE /\ m_search_tree' = linked
                  /\ leaves' = s.work
                  /\ queue' = s.queue
                  /\ pc' = "omt"
    /\ UNCHANGED << buildInputs, tree_nodes_in_level, m_leaves, leaf_node_file, tree_node_file, loaded >>

RECURSIVE ExtendByChildren(_, _, _)
\* for (i = 0; i < n->child_count; i++) Extend(m_search_tree[n->children[i].index] rectangle)
ExtendByChildren(tree, node, i) ==
    IF i < node.child_count
    THEN ExtendByChildren(tree, [node EXCEPT !.minimum_bounding_rectangle = MergeBoundingBoxes(@, At(tree, At(node.children, i).index).minimum_bounding_rectangle)], i + 1)
    ELSE node

RECURSIVE Propagate(_, _)
\* the reverse iteration: nodes at positions n, n - 1, ..., 1 of the sequence
Propagate(tree, n) ==
    IF n = 0 THEN tree
    ELSE IF tree[n].child_count = 0 \/ tree[n].children[1].is_leaf
         THEN Propagate(tree, n - 1)
         ELSE Propagate([tree EXCEPT ![n] = ExtendByChildren(tree, tree[n], 0)], n - 1)

\* a node the post-pass extends reads m_search_tree at a child index outside the vector
PropagateReadsOutside(tree) ==
    \E n \in 1..Len(tree) : /\ tree[n].child_count # 0
                            /\ ~tree[n].children[1].is_leaf
                            /\ \E i \in 1..tree[n].child_count : tree[n].children[i].index >= Len(tree)

\* the queue is empty: the rectangles are propagated up the tree
OMTPropagate ==
    /\ pc = "omt"
    /\ queue = << >>
    /\ IF PropagateReadsOutside(m_search_tree)
       THEN /\ pc' = "ub_read_outside"
            /\ UNCHANGED m_search_tree
       ELSE /\ m_search_tree' = Propagate(m_search_tree, Len(m_search_tree))
            /\ pc' = "omt_write"
    /\ UNCHANGED << buildInputs, leaves, queue, tree_nodes_in_level, m_leaves, leaf_node_file, tree_node_file, loaded >>

\* the node file is written; the leaf file is not mapped by this packer
OMTWrite ==
    /\ pc = "omt_write"
    /\ tree_node_file' = NodeFileOf(m_search_tree)
    /\ pc' = "built"
    /\ UNCHANGED << buildInputs, leaves, queue, tree_nodes_in_level, m_search_tree, m_leaves, leaf_node_file, loaded >>

---------------------------------------------------------------------------
(* The loading constructor *)

\* m_leaves_region.size(): the bytes of the leaf file
LeafFileBytes == Len(leaf_node_file) * LEAF_PAGE_SIZE + leaf_file_excess

\* StaticRTree(node_file, leaf_file, coordinate_list): tree_size nodes are read into the
\* resized node array, the leaf file is mapped as size / sizeof(LeafNode) leaves;
\* &m_search_tree[0] of an array resized to 0 is undefined: the read of no bytes
\* through it passes or the process ends there
Open ==
    /\ pc = "built"
    /\ tree_node_file # << >>
    /\ LET tree_size == tree_node_file[1].count
           num_leaves == LeafFileBytes \div LEAF_PAGE_SIZE
       IN /\ o_search_tree' = SubSeq(tree_node_file[1].nodes, 1, tree_size)
          /\ o_leaves' = SubSeq(leaf_node_file, 1, num_leaves)
          /\ pc' \in IF tree_size = 0 THEN {"open", "ub_empty_tree"} ELSE {"open"}
    /\ UNCHANGED << buildInputs, leaves, queue, tree_nodes_in_level, m_search_tree, m_leaves, leaf_node_file, tree_node_file, leaf_file_excess, query, callers >>

---------------------------------------------------------------------------
(* Nearest *)

\* segment_index of a QueryCandidate that is a tree node or a leaf: numeric_limits<uint32_t>::max()
NoSegment == -1

\* QueryCandidate
QueryCandidate(squared_min_dist, tree_index, segment_index, coordinate) == [squared_min_dist |-> squared_min_dist, tree_index |-> tree_index, segment_index |-> segment_index, fixed_projected_coordinate |-> coordinate]

\* the squared distance ExploreLeafNode gives an edge: from the projected query point to
\* the nearest point of the projected segment
SegmentDistance(cl, q, e) == squaredEuclideanDistance(fromWGS84(q), projectPointOnSegment(ProjectedU(cl, e), ProjectedV(cl, e), fromWGS84(q)))

\* the filters a caller passes: CandidateSegment -> (use forward, use reverse)
Filters == {"all", "forward", "by_edge", "none"}

ApplyFilter(f, candidate) ==
    CASE f = "all" -> << TRUE, TRUE >>
      [] f = "forward" -> << TRUE, FALSE >>
      [] f = "by_edge" -> IF candidate.data.id % 3 = 0 THEN << TRUE, FALSE >> ELSE << candidate.data.fwd, candidate.data.fwd >>
      [] OTHER -> << FALSE, FALSE >>

\* the terminators a caller passes: (num_results, CandidateSegment) -> bool
Terminators == {[kind |-> "never", arg |-> 0], [kind |-> "count", arg |-> 1], [kind |-> "id", arg |-> 1]}

ApplyTerminate(t, num_results, candidate) ==
    CASE t.kind = "count" -> num_results >= t.arg
      [] t.kind = "id" -> candidate.data.id = t.arg
      [] OTHER -> FALSE

\* a variant of ServedBefore for a heap that is not reversed: the farthest comes first
ServedBeforeFarthest(a, b) == b.squared_min_dist < a.squared_min_dist

\* QueryCandidate::operator< reversed for the max-heap: a is served before b
ServedBefore(a, b) == a.squared_min_dist < b.squared_min_dist

\* traversal_queue.top(): the position in q (kept in push order) of an entry no other is
\* served before; among equal keys the heap's order is the implementation's
TopOf(q, tieRev) ==
    LET tops == {i \in 1..Len(q) : \A j \in 1..Len(q) : ~ServedBefore(q[j], q[i])}
    IN IF tieRev THEN CHOOSE i \in tops : \A j \in tops : j <= i ELSE CHOOSE i \in tops : \A j \in tops : i <= j

\* traversal_queue.pop()
Without(q, i) == SubSeq(q, 1, i - 1) \o SubSeq(q, i + 1, Len(q))

RECURSIVE ExploreLeafLoop(_, _, _, _, _, _)
\* ExploreLeafNode: one segment candidate per object of the leaf
ExploreLeafLoop(cl, lvs, leaf_id, input, q, i) ==
    IF i < At(lvs, leaf_id.index).object_count
    THEN LET current_edge == At(At(lvs, leaf_id.index).objects, i)
             projected_nearest == projectPointOnSegment(ProjectedU(cl, current_edge), ProjectedV(cl, current_edge), fromWGS84(input))
             squared_distance == squaredEuclideanDistance(fromWGS84(input), projected_nearest)
         IN ExploreLeafLoop(cl, lvs, leaf_id, input, Append(q, QueryCandidate(squared_distance, leaf_id, i, projected_nearest)), i + 1)
    ELSE q

\* the rectangle of a child: of the leaf or of the tree node it names
ChildRectangle(tree, lvs, child_id) == IF child_id.is_leaf THEN At(lvs, child_id.index).minimum_bounding_rectangle ELSE At(tree, child_id.index).minimum_bounding_rectangle

RECURSIVE ExploreTreeLoopUnprojected(_, _, _, _, _, _)
\* a variant of ExploreTreeLoop that measures the rectangles from the unprojected input
ExploreTreeLoopUnprojected(tree, lvs, parent_id, input, q, i) ==
    IF i < At(tree, parent_id.index).child_count
    THEN LET child_id == At(At(tree, parent_id.index).children, i)
             squared_lower_bound_to_element == GetMinSquaredDist(ChildRectangle(tree, lvs, child_id), input)
         IN ExploreTreeLoopUnprojected(tree, lvs, parent_id, input, Append(q, QueryCandidate(squared_lower_bound_to_element, child_id, NoSegment, Coord(0, 0))), i + 1)
    ELSE q

RECURSIVE ExploreTreeLoop(_, _, _, _, _, _)
\* ExploreTreeNode: one candidate per child, keyed by the lower bound to its rectangle
ExploreTreeLoop(tree, lvs, parent_id, input, q, i) ==
    IF i < At(tree, parent_id.index).child_count
    THEN LET child_id == At(At(tree, parent_id.index).children, i)
             squared_lower_bound_to_element == GetMinSquaredDist(ChildRectangle(tree, lvs, child_id), fromWGS84(input))
         IN ExploreTreeLoop(tree, lvs, parent_id, input, Append(q, QueryCandidate(squared_lower_bound_to_element, child_id, NoSegment, Coord(0, 0))), i + 1)
    ELSE q

\* a tree index that names no element of its store, or an element whose count exceeds its
\* array, or whose children name none: reading through it is undefined behaviour
BadIndex(tree, lvs, id) ==
    IF id.is_leaf
    THEN id.index >= Len(lvs) \/ At(lvs, id.index).object_count > LEAF_NODE_SIZE
    ELSE \/ id.index >= Len(tree)
         \/ At(tree, id.index).child_count > BRANCHING_FACTOR
         \/ \E k \in 1..At(tree, id.index).child_count :
               LET c == At(tree, id.index).children[k]
               IN IF c.is_leaf THEN c.index >= Len(lvs) ELSE c.index >= Len(tree)

\* the state of one run of Nearest: the queue, the results, the calls made to the terminator
\* and the filter, and whether the run has ended
NearestStart == [queue |-> << QueryCandidate(0, DefaultTreeIndex, NoSegment, Coord(0, 0)) >>, results |-> << >>, log |-> << >>, ub |-> FALSE]

\* a variant of SegmentStep that asks the filter and appends before it asks the terminator
SegmentStepFilterFirst(lvs, filter, terminate, st, rest, current_query_node) ==
    LET edge_data == At(At(lvs, current_query_node.tree_index.index).objects, current_query_node.segment_index)
        current_candidate == [fixed_projected_coordinate |-> current_query_node.fixed_projected_coordinate, data |-> edge_data]
        use_segment == ApplyFilter(filter, current_candidate)
        masked == [edge_data EXCEPT !.fwd = @ /\ use_segment[1], !.rev = @ /\ use_segment[2]]
        results == IF ~use_segment[1] /\ ~use_segment[2] THEN st.results ELSE Append(st.results, masked)
        stop == ApplyTerminate(terminate, Len(results), current_candidate)
        judged == Append(st.log, [call |-> "filter", num_results |-> Len(st.results), data |-> edge_data, squared_min_dist |-> current_query_node.squared_min_dist, ret |-> use_segment])
        asked == Append(judged, [call |-> "terminate", num_results |-> Len(results), data |-> edge_data, squared_min_dist |-> current_query_node.squared_min_dist, ret |-> << stop >>])
    IN [stop |-> stop, st |-> [st EXCEPT !.queue = rest, !.log = asked, !.results = results]]

\* a variant of SegmentStep that overwrites the enabled bits with the filter's answer
SegmentStepUnmasked(lvs, filter, terminate, st, rest, current_query_node) ==
    LET edge_data == At(At(lvs, current_query_node.tree_index.index).objects, current_query_node.segment_index)
        current_candidate == [fixed_projected_coordinate |-> current_query_node.fixed_projected_coordinate, data |-> edge_data]
        stop == ApplyTerminate(terminate, Len(st.results), current_candidate)
        use_segment == ApplyFilter(filter, current_candidate)
        asked == Append(st.log, [call |-> "terminate", num_results |-> Len(st.results), data |-> edge_data, squared_min_dist |-> current_query_node.squared_min_dist, ret |-> << stop >>])
        judged == Append(asked, [call |-> "filter", num_results |-> Len(st.results), data |-> edge_data, squared_min_dist |-> current_query_node.squared_min_dist, ret |-> use_segment])
        masked == [edge_data EXCEPT !.fwd = use_segment[1], !.rev = use_segment[2]]
    IN IF stop
       THEN [stop |-> TRUE, st |-> [st EXCEPT !.queue = rest, !.log = asked]]
       ELSE IF ~use_segment[1] /\ ~use_segment[2]
            THEN [stop |-> FALSE, st |-> [st EXCEPT !.queue = rest, !.log = judged]]
            ELSE [stop |-> FALSE, st |-> [st EXCEPT !.queue = rest, !.log = judged, !.results = Append(@, masked)]]

\* the segment branch: the terminator is asked first and may end the search; then the
\* filter; a candidate it lets through is appended with its enabled bits masked
SegmentStep(lvs, filter, terminate, st, rest, current_query_node) ==
    LET edge_data == At(At(lvs, current_query_node.tree_index.index).objects, current_query_node.segment_index)
        current_candidate == [fixed_projected_coordinate |-> current_query_node.fixed_projected_coordinate, data |-> edge_data]
        stop == ApplyTerminate(terminate, Len(st.results), current_candidate)
        use_segment == ApplyFilter(filter, current_candidate)
        asked == Append(st.log, [call |-> "terminate", num_results |-> Len(st.results), data |-> edge_data, squared_min_dist |-> current_query_node.squared_min_dist, ret |-> << stop >>])
        judged == Append(asked, [call |-> "filter", num_results |-> Len(st.results), data |-> edge_data, squared_min_dist |-> current_query_node.squared_min_dist, ret |-> use_segment])
        masked == [edge_data EXCEPT !.fwd = @ /\ use_segment[1], !.rev = @ /\ use_segment[2]]
    IN IF stop
       THEN [stop |-> TRUE, st |-> [st EXCEPT !.queue = rest, !.log = asked]]
       ELSE IF ~use_segment[1] /\ ~use_segment[2]
            THEN [stop |-> FALSE, st |-> [st EXCEPT !.queue = rest, !.log = judged]]
            ELSE [stop |-> FALSE, st |-> [st EXCEPT !.queue = rest, !.log = judged, !.results = Append(@, masked)]]

\* one pass of the while loop: pop; expand a node or a leaf, or judge a segment
NearestPass(cl, tree, lvs, input, filter, terminate, tieRev, st) ==
    LET top == TopOf(st.queue, tieRev)
        current_query_node == st.queue[top]
        rest == Without(st.queue, top)
        current_tree_index == current_query_node.tree_index
    IN IF current_query_node.segment_index = NoSegment
       THEN IF BadIndex(tree, lvs, current_tree_index)
            THEN [stop |-> TRUE, st |-> [st EXCEPT !.ub = TRUE]]
            ELSE IF current_tree_index.is_leaf
                 THEN [stop |-> FALSE, st |-> [st EXCEPT !.queue = ExploreLeafLoop(cl, lvs, current_tree_index, input, rest, 0)]]
                 ELSE [stop |-> FALSE, st |-> [st EXCEPT !.queue = ExploreTreeLoop(tree, lvs, current_tree_index, input, rest, 0)]]
       ELSE SegmentStep(lvs, filter, terminate, st, rest, current_query_node)

RECURSIVE NearestLoop(_, _, _, _, _, _, _, _)
\* while (!traversal_queue.empty()): the passes until the queue is empty or one breaks
NearestLoop(cl, tree, lvs, input, filter, terminate, tieRev, st) ==
    IF st.queue = << >> THEN st
    ELSE LET p == NearestPass(cl, tree, lvs, input, filter, terminate, tieRev, st)
         IN IF p.stop THEN p.st ELSE NearestLoop(cl, tree, lvs, input, filter, terminate, tieRev, p.st)

\* Nearest(input_coordinate, filter, terminate)
Nearest(cl, tree, lvs, input, filter, terminate, tieRev) == NearestLoop(cl, tree, lvs, input, filter, terminate, tieRev, NearestStart)

\* Nearest(input_coordinate, max_results): accept all, stop at num_results >= max_results
NearestMax(cl, tree, lvs, input, max_results, tieRev) == Nearest(cl, tree, lvs, input, "all", [kind |-> "count", arg |-> max_results], tieRev)

---------------------------------------------------------------------------
(* SearchInBox *)

\* the rectangle of an edge's two endpoints in geographic coordinates
EdgeBBox(cl, e) == Rect(Min2(At(cl, e.u).lon, At(cl, e.v).lon), Max2(At(cl, e.u).lon, At(cl, e.v).lon), Min2(At(cl, e.u).lat, At(cl, e.v).lat), Max2(At(cl, e.u).lat, At(cl, e.v).lat))

\* projected_rectangle: the longitudes as given, the latitudes through latToY
ProjectedRectangle(search_rectangle) == Rect(search_rectangle.min_lon, search_rectangle.max_lon, latToY(search_rectangle.min_lat), latToY(search_rectangle.max_lat))

RECURSIVE BoxLeafLoopUntested(_, _, _, _, _)
\* a variant of BoxLeafLoop that appends every edge of the leaf without the test
BoxLeafLoopUntested(cl, leaf, search_rectangle, results, i) ==
    IF i < leaf.object_count
    THEN BoxLeafLoopUntested(cl, leaf, search_rectangle, Append(results, At(leaf.objects, i)), i + 1)
    ELSE results

RECURSIVE BoxLeafLoop(_, _, _, _, _)
\* the leaf branch: each edge's geographic box tested against the unprojected rectangle
BoxLeafLoop(cl, leaf, search_rectangle, results, i) ==
    IF i < leaf.object_count
    THEN LET current_edge == At(leaf.objects, i)
         IN BoxLeafLoop(cl, leaf, search_rectangle, IF Intersects(EdgeBBox(cl, current_edge), search_rectangle) THEN Append(results, current_edge) ELSE results, i + 1)
    ELSE results

RECURSIVE BoxTreeLoop(_, _, _, _, _, _)
\* the node branch: children whose rectangle intersects the projected rectangle are enqueued
BoxTreeLoop(tree, lvs, node, projected_rectangle, q, i) ==
    IF i < node.child_count
    THEN LET child_id == At(node.children, i)
         IN BoxTreeLoop(tree, lvs, node, projected_rectangle, IF Intersects(ChildRectangle(tree, lvs, child_id), projected_rectangle) THEN Append(q, child_id) ELSE q, i + 1)
    ELSE q

BoxStart == [queue |-> << DefaultTreeIndex >>, results |-> << >>, ub |-> FALSE]

\* one pass of the while loop: the front index is taken; a leaf gives results, a node
\* enqueues children
BoxPass(cl, tree, lvs, search_rectangle, st) ==
    LET current_tree_index == Head(st.queue)
    IN IF BadIndex(tree, lvs, current_tree_index)
       THEN [stop |-> TRUE, st |-> [st EXCEPT !.ub = TRUE]]
       ELSE IF current_tree_index.is_leaf
            THEN [stop |-> FALSE, st |-> [st EXCEPT !.queue = Tail(@), !.results = BoxLeafLoop(cl, At(lvs, current_tree_index.index), search_rectangle, @, 0)]]
            ELSE [stop |-> FALSE, st |-> [st EXCEPT !.queue = BoxTreeLoop(tree, lvs, At(tree, current_tree_index.index), ProjectedRectangle(search_rectangle), Tail(@), 0)]]

RECURSIVE BoxLoop(_, _, _, _, _)
\* while (!traversal_queue.empty())
BoxLoop(cl, tree, lvs, search_rectangle, st) ==
    IF st.queue = << >> THEN st
    ELSE LET p == BoxPass(cl, tree, lvs, search_rectangle, st)
         IN IF p.stop THEN p.st ELSE BoxLoop(cl, tree, lvs, search_rectangle, p.st)

\* SearchInBox(search_rectangle)
SearchInBox(cl, tree, lvs, search_rectangle) == BoxLoop(cl, tree, lvs, search_rectangle, BoxStart)

---------------------------------------------------------------------------
(* Queries on the loaded instance *)

\* the query points: the midpoints of the edge shapes and two points off every edge
QueryPoints == {centroid(At(CoordTable, EdgeShapes[k].u), At(CoordTable, EdgeShapes[k].v)) : k \in 1..Len(EdgeShapes)} \cup {Coord(1, 1), Coord(-1, 3)}

\* the query points of the searches that pass a filter and a terminator
FilteredQueryPoints == {Coord(1, 0), Coord(1, 1), Coord(-1, 3)}

\* the query rectangles, geographic
QueryRects == {Rect(-1, 1, -1, 1), Rect(1, 1, 1, 1), Rect(0, 2, 2, 3), Rect(3, 5, 0, 1), Rect(3, 3, 3, 3), Rect(-2, -1, 0, 4), Rect(0, 4, 0, 4)}

NearestMaxQuery ==
    /\ pc = "open"
    /\ \E input_coordinate \in QueryPoints, max_results \in 0..MaxResults :
          LET out == NearestMax(m_coordinate_list, o_search_tree, o_leaves, input_coordinate, max_results, tie)
          IN query' = [kind |-> "nearest_max", input_coordinate |-> input_coordinate, max_results |-> max_results, results |-> out.results, log |-> out.log, ub |-> out.ub]
    /\ pc' = "answered"
    /\ UNCHANGED << buildInputs, leaves, queue, tree_nodes_in_level, m_search_tree, m_leaves, leaf_node_file, tree_node_file, leaf_file_excess, o_search_tree, o_leaves, callers >>

NearestQuery ==
    /\ pc = "open"
    /\ \E input_coordinate \in FilteredQueryPoints, filter \in Filters, terminate \in Terminators :
          LET out == Nearest(m_coordinate_list, o_search_tree, o_leaves, input_coordinate, filter, terminate, tie)
          IN query' = [kind |-> "nearest", input_coordinate |-> input_coordinate, filter |-> filter, terminate |-> terminate, results |-> out.results, log |-> out.log, ub |-> out.ub]
    /\ pc' = "answered"
    /\ UNCHANGED << buildInputs, leaves, queue, tree_nodes_in_level, m_search_tree, m_leaves, leaf_node_file, tree_node_file, leaf_file_excess, o_search_tree, o_leaves, callers >>

SearchInBoxQuery ==
    /\ pc = "open"
    /\ \E search_rectangle \in QueryRects :
          LET out == SearchInBox(m_coordinate_list, o_search_tree, o_leaves, search_rectangle)
          IN query' = [kind |-> "box", search_rectangle |-> search_rectangle, results |-> out.results, ub |-> out.ub]
    /\ pc' = "answered"
    /\ UNCHANGED << buildInputs, leaves, queue, tree_nodes_in_level, m_search_tree, m_leaves, leaf_node_file, tree_node_file, leaf_file_excess, o_search_tree, o_leaves, callers >>

\* the caller takes the result; the instance is ready for the next query
Return ==
    /\ pc = "answered"
    /\ query' = NoQuery
    /\ pc' = "open"
    /\ UNCHANGED << buildInputs, leaves, queue, tree_nodes_in_level, m_search_tree, m_leaves, leaf_node_file, tree_node_file, leaf_file_excess, o_search_tree, o_leaves, callers >>

Next ==
    \/ HilbertSort
    \/ HilbertPackLeaves
    \/ HilbertLevel
    \/ HilbertFinish
    \/ STRSort
    \/ STRPackLeaves
    \/ STRLevel
    \/ STRFinish
    \/ OMTBegin
    \/ OMTLeaf
    \/ OMTNode
    \/ OMTPropagate
    \/ OMTWrite
    \/ Open
    \/ NearestMaxQuery
    \/ NearestQuery
    \/ SearchInBoxQuery
    \/ Return

Spec == Init /\ [][Next]_vars

---------------------------------------------------------------------------
(* The files between the build and the loading constructor.  The loader is  *)
(* handed two paths; what it finds there need not be what a build wrote.    *)

\* the bytes cut from the end of the leaf file
CutBytes == {1, LEAF_PAGE_SIZE - 1}

\* the leaf file loses less than one LeafNode at its end
TruncateLeafFile ==
    /\ pc = "built"
    /\ leaf_file_excess = 0
    /\ Len(leaf_node_file) >= 1
    /\ \E cut \in CutBytes :
          /\ leaf_node_file' = SubSeq(leaf_node_file, 1, Len(leaf_node_file) - 1)
          /\ leaf_file_excess' = LEAF_PAGE_SIZE - cut
    /\ UNCHANGED << buildInputs, pc, leaves, queue, tree_nodes_in_level, m_search_tree, m_leaves, tree_node_file, o_search_tree, o_leaves, query, callers >>

\* the node file is replaced by one that declares no node
EmptyNodeFile ==
    /\ pc = "built"
    /\ tree_node_file # << >>
    /\ tree_node_file[1].count > 0
    /\ tree_node_file' = NodeFileOf(<< >>)
    /\ UNCHANGED << buildInputs, pc, leaves, queue, tree_nodes_in_level, m_search_tree, m_leaves, leaf_node_file, leaf_file_excess, o_search_tree, o_leaves, query, callers >>

\* a build followed by the loading constructor on files that may have been changed
NextFiles ==
    \/ HilbertSort
    \/ HilbertPackLeaves
    \/ HilbertLevel
    \/ HilbertFinish
    \/ STRSort
    \/ STRPackLeaves
    \/ STRLevel
    \/ STRFinish
    \/ OMTBegin
    \/ OMTLeaf
    \/ OMTNode
    \/ OMTPropagate
    \/ OMTWrite
    \/ TruncateLeafFile
    \/ EmptyNodeFile
    \/ Open

SpecFiles == Init /\ [][NextFiles]_vars

---------------------------------------------------------------------------
(* Builds of instantiations with other edge types: LEAF_NODE_SIZE follows    *)
(* from sizeof(EdgeDataT) and may be smaller than BRANCHING_FACTOR - 1.      *)

\* sizes of EdgeDataT the static_asserts accept: LEAF_NODE_SIZE 3, 2 and 1
EdgeDataSizes == {SizeofEdge, 2 * SizeofEdge - 2, LEAF_PAGE_SIZE - LeafHeaderBytes}

InitTemplate ==
    /\ sizeof_EdgeDataT \in EdgeDataSizes
    /\ Entered

\* the building constructor alone
NextBuild ==
    \/ HilbertSort
    \/ HilbertPackLeaves
    \/ HilbertLevel
    \/ HilbertFinish
    \/ STRSort
    \/ STRPackLeaves
    \/ STRLevel
    \/ STRFinish
    \/ OMTBegin
    \/ OMTLeaf
    \/ OMTNode
    \/ OMTPropagate
    \/ OMTWrite

SpecTemplate == InitTemplate /\ [][NextBuild]_vars

\* while (!queue.empty()): one pass of the loop of PackWithOMT, either branch
OMTLoopBody == OMTLeaf \/ OMTNode

\* the loop condition; a pass can be taken exactly when it holds
OMTLoopGuard == pc = "omt" /\ queue # << >>

\* PackWithOMT runs on the one thread of the building constructor, which is never held
\* back: a step of it that can be taken is taken.  The fairness of the loop body is
\* WF_vars(OMTLoopBody) with ENABLED << OMTLoopBody >>_vars written out as OMTLoopGuard.
SpecOMTFair ==
    /\ Init
    /\ [][NextBuild]_vars
    /\ WF_vars(OMTBegin)
    /\ ([]<>(~OMTLoopGuard) \/ []<><< OMTLoopBody >>_vars)
    /\ WF_vars(OMTPropagate)
    /\ WF_vars(OMTWrite)

---------------------------------------------------------------------------
(* Several threads querying one loaded instance.  Nearest and SearchInBox   *)
(* keep their queue and their results in locals; what a pass of their loop  *)
(* shares with other threads is the instance, so a pass is one step.        *)

\* the builds whose instance the threads share: a tree of two leaves, a tree of three levels
SharedInputs == {i \in LongInputs : Len(i) \in {MaxEdges + 1, LongLen - 2}}

\* the calls a thread makes
SharedQueries ==
    {[kind |-> "nearest", input_coordinate |-> Coord(1, 1), filter |-> "forward", terminate |-> [kind |-> "never", arg |-> 0], search_rectangle |-> EmptyRect],
     [kind |-> "nearest", input_coordinate |-> Coord(1, 0), filter |-> "by_edge", terminate |-> [kind |-> "id", arg |-> 1], search_rectangle |-> EmptyRect],
     [kind |-> "nearest", input_coordinate |-> Coord(-1, 3), filter |-> "all", terminate |-> [kind |-> "count", arg |-> MaxResults], search_rectangle |-> EmptyRect],
     [kind |-> "box", input_coordinate |-> Coord(0, 0), filter |-> "all", terminate |-> [kind |-> "never", arg |-> 0], search_rectangle |-> Rect(0, 2, 2, 3)]}

\* a variant of EdgeDataWritten for auto &edge_data: the masked bits reach the mapped leaf
EdgeDataWrittenThrough(lvs, current_query_node, masked) ==
    [lvs EXCEPT ![current_query_node.tree_index.index + 1].objects[current_query_node.segment_index + 1] = masked]

\* the mapped leaves after edge_data was masked: auto edge_data is a copy of the stored
\* edge, so the enabled bits cleared in it stay in the thread
EdgeDataWritten(lvs, current_query_node, masked) == lvs

\* a thread enters Nearest or SearchInBox: empty results, the root in the queue
CallShared ==
    /\ pc = "open"
    /\ \E c \in Callers, q \in SharedQueries :
          /\ callers[c].phase = "idle"
          /\ callers' = [callers EXCEPT ![c] = [phase |-> "running", query |-> q, st |-> IF q.kind = "box" THEN BoxStart ELSE NearestStart]]
    /\ UNCHANGED << buildInputs, pc, leaves, queue, tree_nodes_in_level, m_search_tree, m_leaves, leaf_node_file, tree_node_file, leaf_file_excess, o_search_tree, o_leaves, query >>

\* one pass of the while loop of a thread in Nearest
NearestStep ==
    /\ pc = "open"
    /\ \E c \in Callers :
          /\ callers[c].phase = "running"
          /\ callers[c].query.kind = "nearest"
          /\ LET q == callers[c].query
                 st == callers[c].st
                 current_query_node == st.queue[TopOf(st.queue, tie)]
                 p == NearestPass(m_coordinate_list, o_search_tree, o_leaves, q.input_coordinate, q.filter, q.terminate, tie, st)
             IN /\ callers' = [callers EXCEPT ![c] = [phase |-> IF p.stop \/ p.st.queue = << >> THEN "finished" ELSE "running", query |-> q, st |-> p.st]]
                /\ o_leaves' = IF current_query_node.segment_index # NoSegment /\ Len(p.st.results) > Len(st.results)
                               THEN EdgeDataWritten(o_leaves, current_query_node, p.st.results[Len(p.st.results)])
                               ELSE o_leaves
    /\ UNCHANGED << buildInputs, pc, leaves, queue, tree_nodes_in_level, m_search_tree, m_leaves, leaf_node_file, tree_node_file, leaf_file_excess, o_search_tree, query >>

\* one pass of the while loop of a thread in SearchInBox
BoxStep ==
    /\ pc = "open"
    /\ \E c \in Callers :
          /\ callers[c].phase = "running"
          /\ callers[c].query.kind = "box"
          /\ LET q == callers[c].query
                 p == BoxPass(m_coordinate_list, o_search_tree, o_leaves, q.search_rectangle, callers[c].st)
             IN callers' = [callers EXCEPT ![c] = [phase |-> IF p.stop \/ p.st.queue = << >> THEN "finished" ELSE "running", query |-> q, st |-> p.st]]
    /\ UNCHANGED << buildInputs, pc, leaves, queue, tree_nodes_in_level, m_search_tree, m_leaves, leaf_node_file, tree_node_file, leaf_file_excess, o_search_tree, o_leaves, query >>

\* return results: the thread has its answer and may call again
ReturnShared ==
    /\ pc = "open"
    /\ \E c \in Callers :
          /\ callers[c].phase = "finished"
          /\ callers' = [callers EXCEPT ![c] = Idle]
    /\ UNCHANGED << buildInputs, pc, leaves, queue, tree_nodes_in_level, m_search_tree, m_leaves, leaf_node_file, tree_node_file, leaf_file_excess, o_search_tree, o_leaves, query >>

InitShared ==
    /\ Init
    /\ input_data_vector \in SharedInputs

NextShared ==
    \/ NextBuild
    \/ Open
    \/ CallShared
    \/ NearestStep
    \/ BoxStep
    \/ ReturnShared

SpecShared == InitShared /\ [][NextShared]_vars

---------------------------------------------------------------------------
(* Properties *)

\* the build has returned with both files written
BuildDone == pc \in {"built", "open", "answered"}

\* a Nearest query of either form has returned
NearestAnswered == pc = "answered" /\ query.kind \in {"nearest", "nearest_max"}

\* the squared projected distance from the query point to a returned edge
ResultDistance(i) == SegmentDistance(m_coordinate_list, query.input_coordinate, query.results[i])

\* no query on an instance loaded from the files of a finished build reads outside its stores
QueryStaysInside == pc = "answered" => ~query.ub

\* C1: the edges Nearest returns are in non-decreasing order of squared projected
\* distance from the query point to the edge's segment
C1_NearestOrdered == NearestAnswered => \A i \in 1..(Len(query.results) - 1) : ResultDistance(i) <= ResultDistance(i + 1)

\* C1 witness: a query on a tree of several nodes returned three or more edges, not all
\* at the same distance
C1_Witness == NearestAnswered /\ Len(o_search_tree) > 1 /\ Len(query.results) >= 3 /\ ResultDistance(1) < ResultDistance(Len(query.results))

\* the input edges and their midpoints
InputEdges == {input_data_vector[i] : i \in 1..Len(input_data_vector)}

\* C2: after build and open, Nearest(midpoint(e), 1) returns one edge, at a squared
\* projected distance not above that of e, for every input edge e and packing method
C2_RoundTrip ==
    (pc = "answered" /\ query.kind = "nearest_max" /\ query.max_results = 1)
        => \A e \in InputEdges : query.input_coordinate = EdgeCentroid(m_coordinate_list, e)
              => Len(query.results) = 1 /\ ResultDistance(1) <= SegmentDistance(m_coordinate_list, query.input_coordinate, e)

\* C2 restricted to the Hilbert and STR packers, which it holds for
C2_RoundTripHilbertSTR == packing_method # "OMT" => C2_RoundTrip

\* C3: with a terminator that never stops and a filter that accepts all, Nearest
\* returns as many edges as were given to build
C3_NearestComplete ==
    (pc = "answered" /\ query.kind = "nearest" /\ query.filter = "all" /\ query.terminate.kind = "never")
        => Len(query.results) = Len(input_data_vector)

\* C3 restricted to the Hilbert and STR packers, which it holds for
C3_NearestCompleteHilbertSTR == packing_method # "OMT" => C3_NearestComplete

\* the calls Nearest made to the terminator and the filter, in order
Log == query.log

TerminateCalls == {i \in 1..Len(Log) : Log[i].call = "terminate"}

FilterCalls == {i \in 1..Len(Log) : Log[i].call = "filter"}

\* the filter calls that let their candidate through
Admitted == {i \in FilterCalls : Log[i].ret # << FALSE, FALSE >>}

\* the edges stored in the valid slots of the loaded leaves
StoredEdges == {o_leaves[p[1]].objects[p[2]] : p \in {q \in (1..Len(o_leaves)) \X (1..LEAF_NODE_SIZE) : q[2] <= o_leaves[q[1]].object_count}}

\* the number of valid slots of the loaded leaves
StoredCount == Cardinality({<< l, k >> \in (1..Len(o_leaves)) \X (1..LEAF_NODE_SIZE) : k <= o_leaves[l].object_count})

\* C4: the terminator is called on each popped segment candidate, in non-decreasing
\* distance order, with the number of results admitted so far, before the filter; at
\* the first candidate it returns true for the search stops, and neither that
\* candidate nor a later one is in the result
C4_Terminator ==
    NearestAnswered =>
        /\ \A i \in TerminateCalls : Log[i].squared_min_dist = SegmentDistance(m_coordinate_list, query.input_coordinate, Log[i].data)
        /\ \A i, j \in TerminateCalls : i < j => Log[i].squared_min_dist <= Log[j].squared_min_dist
        /\ \A i \in TerminateCalls : Log[i].num_results = Cardinality({k \in Admitted : k < i})
        /\ \A i \in FilterCalls : i > 1 /\ Log[i - 1].call = "terminate" /\ Log[i - 1].data = Log[i].data /\ Log[i - 1].ret = << FALSE >>
        /\ \A i \in TerminateCalls : Log[i].ret = << TRUE >> => i = Len(Log) /\ \A k \in 1..Len(query.results) : query.results[k].id # Log[i].data.id
        /\ \A i \in TerminateCalls : Log[i].ret = << FALSE >> => i + 1 \in FilterCalls
        /\ Len(query.results) = Cardinality(Admitted)
        /\ \A k \in 1..Len(query.results) : \E i \in Admitted : Cardinality({a \in Admitted : a < i}) = k - 1 /\ Log[i].data.id = query.results[k].id
        /\ (\A i \in TerminateCalls : Log[i].ret = << FALSE >>) => Cardinality(TerminateCalls) = StoredCount

\* C4 witness: the terminator stopped a search that had admitted a result and rejected
\* a candidate, while stored edges were still not judged
C4_Witness ==
    /\ NearestAnswered
    /\ Len(Log) >= 5
    /\ Log[Len(Log)].call = "terminate" /\ Log[Len(Log)].ret = << TRUE >>
    /\ Len(query.results) >= 1
    /\ Cardinality(FilterCalls \ Admitted) >= 1
    /\ Cardinality(TerminateCalls) < StoredCount

\* the stored edge a result came from
StoredOf(r) == CHOOSE e \in StoredEdges : e.id = r.id

\* C5: a returned edge has forward-enabled = stored forward-enabled AND the filter's
\* first bit, reverse-enabled = stored reverse-enabled AND its second bit; a candidate
\* the filter answers (false, false) for is not returned and does not raise the
\* result count later passed to the terminator
C5_Filter ==
    NearestAnswered =>
        /\ \A k \in 1..Len(query.results) :
              /\ \E e \in StoredEdges : e.id = query.results[k].id
              /\ \E i \in FilterCalls :
                    /\ Log[i].data = StoredOf(query.results[k])
                    /\ query.results[k] = [StoredOf(query.results[k]) EXCEPT !.fwd = @ /\ Log[i].ret[1], !.rev = @ /\ Log[i].ret[2]]
        /\ \A i \in FilterCalls \ Admitted :
              /\ \A k \in 1..Len(query.results) : query.results[k].id # Log[i].data.id
              /\ i < Len(Log) => Log[i + 1].num_results = Log[i].num_results

\* C5 witness: a returned edge whose stored reverse bit is off though the filter's bit
\* is on, after a rejected candidate that was followed by another terminator call
C5_Witness ==
    /\ NearestAnswered
    /\ \E i \in FilterCalls \ Admitted : i < Len(Log)
    /\ \E k \in 1..Len(query.results), i \in Admitted : Log[i].data.id = query.results[k].id /\ Log[i].ret[2] /\ ~query.results[k].rev
    /\ \E k \in 1..Len(query.results), i \in Admitted : Log[i].data.id = query.results[k].id /\ ~Log[i].ret[2] /\ Log[i].data.rev

\* C6: Nearest(Q, max_results) returns exactly min(max_results, number of edges given
\* to build) edges; max_results = 0 returns none
C6_NearestMaxCount == (pc = "answered" /\ query.kind = "nearest_max") => Len(query.results) = Min2(query.max_results, Len(input_data_vector))

\* C6 restricted to the Hilbert and STR packers, which it holds for
C6_NearestMaxCountHilbertSTR == packing_method # "OMT" => C6_NearestMaxCount

BoxAnswered == pc = "answered" /\ query.kind = "box"

C8_BoxComplete == BoxAnswered => \A e \in InputEdges : Intersects(EdgeBBox(m_coordinate_list, e), query.search_rectangle) => \E k \in 1..Len(query.results) : query.results[k] = e

\* C8 restricted to the Hilbert and STR packers, which it holds for
C8_BoxCompleteHilbertSTR == packing_method # "OMT" => C8_BoxComplete

\* the valid slots of the leaf file that hold edge e
SlotsOf(e) == {<< l, k >> \in (1..Len(leaf_node_file)) \X (1..LEAF_NODE_SIZE) : k <= leaf_node_file[l].object_count /\ leaf_node_file[l].objects[k] = e}

\* C9: after build every input edge occupies exactly one valid slot of exactly one
\* leaf of the leaf file
C9_Coverage == BuildDone => \A e \in InputEdges : Cardinality(SlotsOf(e)) = 1

\* C9 restricted to the Hilbert and STR packers, which it holds for
C9_CoverageHilbertSTR == packing_method # "OMT" => C9_Coverage

\* the least and the greatest of a set of numbers, the sentinels for the empty set
LeastOf(S) == CHOOSE x \in S \cup {INT32_MAX} : \A y \in S : x <= y

GreatestOf(S) == CHOOSE x \in S \cup {-INT32_MAX} : \A y \in S : y <= x

\* the union of a set of rectangles
UnionOfRects(S) == Rect(LeastOf({r.min_lon : r \in S}), GreatestOf({r.max_lon : r \in S}), LeastOf({r.min_lat : r \in S}), GreatestOf({r.max_lat : r \in S}))

\* the projected endpoint box of an edge
ProjectedBBox(cl, e) == Rect(Min2(ProjectedU(cl, e).lon, ProjectedV(cl, e).lon), Max2(ProjectedU(cl, e).lon, ProjectedV(cl, e).lon), Min2(ProjectedU(cl, e).lat, ProjectedV(cl, e).lat), Max2(ProjectedU(cl, e).lat, ProjectedV(cl, e).lat))

\* C10: after build the rectangle of every internal node is the union of its
\* children's rectangles, and the rectangle of every leaf is the union of the
\* projected endpoint boxes of its object_count edges
C10_MBR ==
    BuildDone =>
        /\ \A n \in 1..Len(m_search_tree) : m_search_tree[n].minimum_bounding_rectangle = UnionOfRects({ChildRectangle(m_search_tree, leaf_node_file, m_search_tree[n].children[k]) : k \in 1..m_search_tree[n].child_count})
        /\ \A l \in 1..Len(leaf_node_file) : leaf_node_file[l].minimum_bounding_rectangle = UnionOfRects({ProjectedBBox(m_coordinate_list, leaf_node_file[l].objects[k]) : k \in 1..leaf_node_file[l].object_count})

\* C10 witness: an OMT build that ended with a root over tree nodes over leaves
C10_Witness == BuildDone /\ packing_method = "OMT" /\ Len(m_search_tree) >= 3 /\ ~m_search_tree[1].children[1].is_leaf /\ \E l \in 1..Len(leaf_node_file) : leaf_node_file[l].object_count >= 1

\* the outcomes of a build that ran into undefined behaviour
UndefinedOutcomes == {"ub_empty_level", "ub_empty_tree", "ub_leaf_overflow", "ub_no_parent", "ub_children_overflow", "ub_read_outside"}

\* the non-leaf children of the node at position n (0-based) of the node array
NodeChildrenOf(tree, n) == {At(tree, n).children[k].index : k \in {j \in 1..At(tree, n).child_count : ~At(tree, n).children[j].is_leaf}}

\* C11: after build the root is the node at index 0 (no node has it as a child, every
\* other node is the child of some node), and each non-leaf child of the node at index
\* i has an index strictly greater than i
C11_RootFirst ==
    BuildDone =>
        /\ Len(m_search_tree) >= 1
        /\ \A i \in 0..(Len(m_search_tree) - 1) : \A c \in NodeChildrenOf(m_search_tree, i) : c > i /\ c < Len(m_search_tree)
        /\ \A c \in 1..(Len(m_search_tree) - 1) : \E i \in 0..(Len(m_search_tree) - 1) : c \in NodeChildrenOf(m_search_tree, i)
        /\ tree_node_file = NodeFileOf(m_search_tree)

\* C11 witness: a Hilbert or STR build that ended with a root over several tree nodes
C11_Witness == BuildDone /\ packing_method # "OMT" /\ Len(m_search_tree) >= 3 /\ Cardinality(NodeChildrenOf(m_search_tree, 0)) >= 2

\* C12: with Hilbert and STR every leaf of the leaf file but the last written holds
\* LEAF_NODE_SIZE edges, and the last holds between 1 and LEAF_NODE_SIZE
C12_LeafFill ==
    packing_method # "OMT" =>
        /\ \A l \in 1..(Len(leaf_node_file) - 1) : leaf_node_file[l].object_count = LEAF_NODE_SIZE
        /\ Len(leaf_node_file) >= 1 => leaf_node_file[Len(leaf_node_file)].object_count \in 1..LEAF_NODE_SIZE

\* C12 witness: several leaves were written, the last not full
C12_Witness == packing_method # "OMT" /\ BuildDone /\ Len(leaf_node_file) >= 3 /\ leaf_node_file[Len(leaf_node_file)].object_count < LEAF_NODE_SIZE

\* C14: a build from no edge is rejected: it runs into no undefined behaviour (no
\* element of an empty vector is read or written) and exposes no index
C14_EmptyRejected == Len(input_data_vector) = 0 => pc \notin UndefinedOutcomes /\ ~BuildDone

\* C15: a build from one edge ends with a node array of one node, the root, whose only
\* child is leaf 0, and leaf 0 holds that edge alone
C15_SingleEdge ==
    Len(input_data_vector) = 1 =>
        /\ pc \notin UndefinedOutcomes
        /\ BuildDone =>
              /\ Len(m_search_tree) = 1
              /\ m_search_tree[1].child_count = 1
              /\ m_search_tree[1].children[1] = TreeIndex(0, TRUE)
              /\ Len(leaf_node_file) = 1
              /\ leaf_node_file[1].object_count = 1
              /\ leaf_node_file[1].objects[1] = input_data_vector[1]

\* C15 restricted to the Hilbert and STR packers, which it holds for
C15_SingleEdgeHilbertSTR == packing_method # "OMT" => C15_SingleEdge

\* the children a node counts refer to a written leaf or to a node of the node array
ChildrenExist(node) ==
    /\ node.child_count <= BRANCHING_FACTOR
    /\ \A k \in 1..Min2(node.child_count, BRANCHING_FACTOR) :
          IF node.children[k].is_leaf THEN node.children[k].index < Len(leaf_node_file) ELSE node.children[k].index < Len(m_search_tree)

\* C19: during and after build every tree node has child_count <= BRANCHING_FACTOR, no
\* write goes to children[k] with k >= BRANCHING_FACTOR, and every counted child
\* refers to an existing node or an existing leaf
C19_ChildrenInBounds ==
    /\ pc # "ub_children_overflow"
    /\ \A n \in 1..Len(m_search_tree) : ChildrenExist(m_search_tree[n])
    /\ \A n \in 1..Len(tree_nodes_in_level) : ChildrenExist(tree_nodes_in_level[n])

\* C19 restricted to the Hilbert and STR packers, which it holds for
C19_ChildrenInBoundsHilbertSTR == packing_method # "OMT" => C19_ChildrenInBounds

\* the counted children of the nodes built so far exist, whatever the packer
C19_CountedChildrenExist == (\A n \in 1..Len(m_search_tree) : ChildrenExist(m_search_tree[n])) /\ (\A n \in 1..Len(tree_nodes_in_level) : ChildrenExist(tree_nodes_in_level[n]))

RECURSIVE LevelLoop(_, _, _, _, _)
\* the level loop of PackWithHilbert and PackWithSTR run to its end from the bottom level
LevelLoop(method, level, tree, depth, tieRev) ==
    IF Len(level) > 1
    THEN LET p == PackLevel(IF method = "STR" THEN STRLevelOrder(level, depth, tieRev) ELSE level, tree)
         IN LevelLoop(method, p.level, p.tree, depth, tieRev)
    ELSE [level |-> level, tree |-> tree]

\* the leaf file and the node array a Hilbert or STR build of input leaves when the
\* partitioner halves ranges to the given depth and the sorts order equal keys by tieRev
PackedOutput(cl, input, method, depth, tieRev) ==
    LET p == PackLeaves(cl, IF method = "STR" THEN STROrder(cl, input, depth, tieRev) ELSE HilbertOrder(cl, input, tieRev))
        l == LevelLoop(method, p.level, << >>, depth, tieRev)
    IN [leaves |-> p.file, nodes |-> IF Len(l.level) = 0 THEN << >> ELSE ReverseAndRenumber(Append(l.tree, l.level[1]))]

\* the schedules a second build of the same input may meet
Schedules == {s \in (0..MaxSplit) \X BOOLEAN : packing_method = "STR" \/ s[1] = 0}

\* C13: a finished Hilbert or STR build has written the leaf file and the node array
\* that every other build of the same edges and coordinates writes, however the
\* parallel range loop is split and however the parallel sorts order equal keys
C13_Deterministic ==
    (pc = "built" /\ packing_method # "OMT") =>
        \A s \in Schedules : PackedOutput(m_coordinate_list, input_data_vector, packing_method, s[1], s[2]) = [leaves |-> leaf_node_file, nodes |-> m_search_tree]

\* C13 where only the split of the blocked_range differs between the two builds
C13_DeterministicSameTies ==
    (pc = "built" /\ packing_method # "OMT") =>
        \A d \in {s[1] : s \in Schedules} : PackedOutput(m_coordinate_list, input_data_vector, packing_method, d, tie) = [leaves |-> leaf_node_file, nodes |-> m_search_tree]

\* C13 for Hilbert builds of edges with pairwise different Hilbert values
C13_DeterministicHilbertDistinct ==
    (packing_method = "Hilbert" /\ \A i, j \in 1..Len(input_data_vector) : i # j => HilbertValue(m_coordinate_list, input_data_vector[i]) # HilbertValue(m_coordinate_list, input_data_vector[j])) => C13_Deterministic

\* C16: the loading constructor never returns an instance for a leaf file whose size
\* is not a multiple of sizeof(LeafNode)
C16_LeafFileSizeChecked == pc = "open" => LeafFileBytes % LEAF_PAGE_SIZE = 0

\* C17: the loading constructor never returns an instance with an empty node array,
\* whatever node count the node file declares
C17_ZeroNodesRejected == pc = "open" => Len(o_search_tree) > 0

\* C20: every leaf in the leaf file has object_count <= LEAF_NODE_SIZE and no build
\* stops at a copy of more than LEAF_NODE_SIZE edges into one leaf, whatever
\* LEAF_NODE_SIZE the instantiation has, LEAF_NODE_SIZE < BRANCHING_FACTOR - 1 included
C20_LeafCapacity ==
    /\ pc # "ub_leaf_overflow"
    /\ \A l \in 1..Len(leaf_node_file) : leaf_node_file[l].object_count <= LEAF_NODE_SIZE

\* C20 for builds with Hilbert or STR packing
C20_LeafCapacityHilbertSTR == packing_method # "OMT" => C20_LeafCapacity

\* C20 for instantiations whose leaves hold at least BRANCHING_FACTOR - 1 edges
C20_LeafCapacityWideLeaves == BRANCHING_FACTOR - 1 <= LEAF_NODE_SIZE => C20_LeafCapacity

\* what the call q returns when no other thread is at work on the instance
AloneResult(q) ==
    IF q.kind = "box"
    THEN SearchInBox(m_coordinate_list, tree_node_file[1].nodes, leaf_node_file, q.search_rectangle).results
    ELSE Nearest(m_coordinate_list, tree_node_file[1].nodes, leaf_node_file, q.input_coordinate, q.filter, q.terminate, tie).results

\* the instance is what the loading constructor made of the files
SharedIndexIntact == o_search_tree = tree_node_file[1].nodes /\ o_leaves = leaf_node_file /\ m_coordinate_list = CoordTable

\* C18: while threads query the loaded instance its node array, its leaves with their
\* stored enabled flags and the coordinate table stay as loaded, and a query that has
\* ended among the passes of the others holds the result it returns when run alone
C18_SharedQueries ==
    pc = "open" =>
        /\ SharedIndexIntact
        /\ \A c \in Callers : callers[c].phase = "finished" => ~callers[c].st.ub /\ callers[c].st.results = AloneResult(callers[c].query)

\* both threads hold a result at once, and one holds an edge with its reverse flag cleared
\* by its filter while the other holds the same edge with the flag as stored
C18_Witness ==
    /\ pc = "open"
    /\ Len(o_search_tree) >= 3
    /\ callers["a"].phase = "finished"
    /\ callers["b"].phase = "finished"
    /\ callers["a"].query.filter = "forward"
    /\ \E i \in 1..Len(callers["a"].st.results), j \in 1..Len(callers["b"].st.results) :
          /\ callers["a"].st.results[i].id = callers["b"].st.results[j].id
          /\ ~callers["a"].st.results[i].rev
          /\ callers["b"].st.results[j].rev

RECURSIVE NearestTrace(_, _, _, _, _, _, _, _)
\* the passes of a run of Nearest from st on: the key of the entry each pass pops and
\* the keys of the entries it pushes
NearestTrace(cl, tree, lvs, input, filter, terminate, tieRev, st) ==
    IF st.queue = << >> THEN << >>
    ELSE LET top == TopOf(st.queue, tieRev)
             rest == Without(st.queue, top)
             p == NearestPass(cl, tree, lvs, input, filter, terminate, tieRev, st)
             pushed == IF p.st.ub \/ st.queue[top].segment_index # NoSegment THEN << >> ELSE SubSeq(p.st.queue, Len(rest) + 1, Len(p.st.queue))
             pass == [popped |-> st.queue[top].squared_min_dist, is_segment |-> st.queue[top].segment_index # NoSegment, is_leaf |-> st.queue[top].tree_index.is_leaf, pushed |-> [k \in 1..Len(pushed) |-> pushed[k].squared_min_dist]]
         IN << pass >> \o (IF p.stop THEN << >> ELSE NearestTrace(cl, tree, lvs, input, filter, terminate, tieRev, p.st))

\* the passes of the answered Nearest query
AnsweredTrace ==
    IF query.kind = "nearest"
    THEN NearestTrace(m_coordinate_list, o_search_tree, o_leaves, query.input_coordinate, query.filter, query.terminate, tie, NearestStart)
    ELSE NearestTrace(m_coordinate_list, o_search_tree, o_leaves, query.input_coordinate, "all", [kind |-> "count", arg |-> query.max_results], tie, NearestStart)

\* C21: in every run of Nearest each entry pushed while a popped node or leaf is expanded
\* has a key not below the key of the popped entry, and the keys popped one after
\* another never decrease
C21_KeysMonotone ==
    NearestAnswered =>
        LET tr == AnsweredTrace
        IN /\ \A i \in 1..Len(tr) : \A k \in 1..Len(tr[i].pushed) : tr[i].pushed[k] >= tr[i].popped
           /\ \A i \in 1..(Len(tr) - 1) : tr[i].popped <= tr[i + 1].popped

\* a run over a tree of three levels in which a node and a leaf with keys above 0 were
\* expanded and a segment farther than the first one was popped
C21_Witness ==
    /\ NearestAnswered
    /\ Len(o_search_tree) >= 3
    /\ LET tr == AnsweredTrace
       IN /\ \E i \in 1..Len(tr) : ~tr[i].is_segment /\ ~tr[i].is_leaf /\ tr[i].popped > 0 /\ Len(tr[i].pushed) >= 2
          /\ \E i \in 1..Len(tr) : ~tr[i].is_segment /\ tr[i].is_leaf /\ tr[i].popped > 0 /\ Len(tr[i].pushed) >= 2
          /\ \E i, j \in 1..Len(tr) : i < j /\ tr[i].is_segment /\ tr[j].is_segment /\ tr[i].popped < tr[j].popped

\* the tree nodes there are: those of the node vector and, while the build runs, those of
\* the level still being packed
NodesSoFar == IF BuildDone THEN m_search_tree ELSE m_search_tree \o tree_nodes_in_level

\* the leaf child entries of these nodes: << node, slot >>
LeafEntries == {e \in (1..Len(NodesSoFar)) \X (1..BRANCHING_FACTOR) : e[2] <= NodesSoFar[e[1]].child_count /\ NodesSoFar[e[1]].children[e[2]].is_leaf}

\* the index a leaf child entry carries
LeafEntryIndex(e) == NodesSoFar[e[1]].children[e[2]].index

\* C22: at every point of a build each leaf child entry of a tree node names a slot of
\* the leaf file of its own, the leaf in that slot lies inside the node's rectangle, and
\* unless the build has run into undefined behaviour the entries name the slots
\* 0, 1, 2, ... of all leaves written: an entry's index is the number of leaves
\* written before its leaf
C22_LeafSlots ==
    /\ \A e \in LeafEntries : LeafEntryIndex(e) < Len(leaf_node_file)
    /\ \A e, f \in LeafEntries : e # f => LeafEntryIndex(e) # LeafEntryIndex(f)
    /\ \A e \in LeafEntries : MergeBoundingBoxes(NodesSoFar[e[1]].minimum_bounding_rectangle, At(leaf_node_file, LeafEntryIndex(e)).minimum_bounding_rectangle) = NodesSoFar[e[1]].minimum_bounding_rectangle
    /\ pc \notin UndefinedOutcomes => {LeafEntryIndex(e) : e \in LeafEntries} = 0..(Len(leaf_node_file) - 1)
    /\ (packing_method # "OMT" /\ pc = "levels" /\ m_search_tree = << >>) =>
           \A e \in LeafEntries : LeafEntryIndex(e) = (e[1] - 1) * BRANCHING_FACTOR + (e[2] - 1)

\* a finished build of at least four leaves under at least two nodes
C22_Witness ==
    /\ BuildDone
    /\ Len(leaf_node_file) >= 4
    /\ Cardinality({e[1] : e \in LeafEntries}) >= 2
    /\ \E e \in LeafEntries : e[2] = 1 /\ LeafEntryIndex(e) >= BRANCHING_FACTOR

\* the OMT queue loop is running on a non-empty input
OMTLoopRunning == packing_method = "OMT" /\ pc = "omt" /\ Len(input_data_vector) >= 1

\* the OMT queue loop has ended on its condition: the queue is empty
OMTLoopEnded == packing_method = "OMT" /\ pc \in {"omt", "omt_write", "built"} /\ queue = << >>

C23_OMTQueueEmptiesUnlessUndefined == OMTLoopRunning ~> (OMTLoopEnded \/ pc \in UndefinedOutcomes)

\* C23, the ranges: every range a pass enqueues is smaller than the range it dequeued
C23_RangesShrink ==
    [][(pc = "omt" /\ queue # << >> /\ pc' = "omt") => \A k \in Len(queue)..Len(queue') : RangeN(queue'[k]) < RangeN(Head(queue))]_vars

\* C23, the steps: the slab and group steps of a range that takes the node branch are >= 1
C23_StepsPositive ==
    (pc = "omt" /\ queue # << >> /\ RangeN(Head(queue)) > BRANCHING_FACTOR) => OMTN2(Head(queue)) >= 1 /\ OMTN1(Head(queue)) >= 1

\* C23, the leaves: a pass that goes on writes one leaf if its range took the leaf branch
\* and none otherwise
C23_LeafPerLeafRange ==
    [][(pc = "omt" /\ queue # << >> /\ pc' = "omt") => Len(leaf_node_file') = Len(leaf_node_file) + (IF RangeN(Head(queue)) <= BRANCHING_FACTOR THEN 1 ELSE 0)]_vars


----------------------------------------------------------------------------
(* C24: the slabs of the STR packer                                        *)

\* cap * ceil(sqrt(n / cap)) with n / cap the exact quotient
SlabSize(n, cap) == cap * (CHOOSE k \in 0..n : k * k * cap >= n /\ \A j \in 0..(k - 1) : j * j * cap < n)

\* [0, n) cut into consecutive slabs of the given size, the last one shorter
Slabs(n, size) == {<< k * size, Min2((k + 1) * size, n) >> : k \in 0..((n - 1) \div size)}

\* s lies in slabs of the given size: the keys of a slab do not go down by ykey, and no
\* element of a slab has a smaller xkey than an element of an earlier slab
InSlabs(xkey, ykey, size) ==
    \A c \in Slabs(Len(xkey), size) :
        /\ \A i \in (c[1] + 1)..(c[2] - 1) : ykey[i] <= ykey[i + 1]
        /\ \A i \in (c[1] + 1)..c[2] : \A j \in 1..c[1] : xkey[j] <= xkey[i]

\* the STR packer has sorted the copy of a non-empty input
STRSorted == packing_method = "STR" /\ pc = "pack" /\ Len(input_data_vector) >= 1

\* the STR packer is about to sort a level of more than one node
STRLevelWaiting == packing_method = "STR" /\ pc = "levels" /\ Len(tree_nodes_in_level) > 1

\* C24: the STR packer leaves the edges in slabs of
\* LEAF_NODE_SIZE * ceil(sqrt(N / LEAF_NODE_SIZE)) edges: slab after slab by centroid
\* longitude, by centroid latitude within a slab
C24_SlabsCut ==
    STRSorted =>
        InSlabs([i \in 1..Len(leaves) |-> EdgeCentroid(m_coordinate_list, leaves[i]).lon],
                [i \in 1..Len(leaves) |-> EdgeCentroid(m_coordinate_list, leaves[i]).lat],
                SlabSize(Len(leaves), LEAF_NODE_SIZE))

\* C24 where the range is run as one piece
C24_SlabsCutUnsplit == split = 0 => C24_SlabsCut

\* C24, the size: the number handed to the range of the leaf sort and of each level sort
\* is the slab size of the claim
C24_SlabSizeUsed ==
    /\ STRSorted => LeafK(Len(input_data_vector)) = SlabSize(Len(input_data_vector), LEAF_NODE_SIZE)
    /\ STRLevelWaiting => TreeK(Len(tree_nodes_in_level)) = SlabSize(Len(tree_nodes_in_level), BRANCHING_FACTOR)

\* C24, "hence always >= 1": the number handed to the range is never 0
C24_SlabSizePositive ==
    /\ STRSorted => LeafK(Len(input_data_vector)) >= 1
    /\ STRLevelWaiting => TreeK(Len(tree_nodes_in_level)) >= 1

----------------------------------------------------------------------------
(* C25: the leaves of the OMT packer                                       *)

\* the projected end points of a set of edges
EndPoints(cl, edges) == {ProjectedU(cl, e) : e \in edges} \cup {ProjectedV(cl, e) : e \in edges}

\* rect is the smallest rectangle around the points, the empty rectangle if there are none
TightAround(rect, points) ==
    IF points = {} THEN rect = EmptyRect
    ELSE /\ \A p \in points : rect.min_lon <= p.lon /\ p.lon <= rect.max_lon /\ rect.min_lat <= p.lat /\ p.lat <= rect.max_lat
         /\ \E p \in points : rect.min_lon = p.lon
         /\ \E p \in points : rect.max_lon = p.lon
         /\ \E p \in points : rect.min_lat = p.lat
         /\ \E p \in points : rect.max_lat = p.lat

\* a pass of the OMT queue loop that writes a leaf
OMTLeafWritten == packing_method = "OMT" /\ pc = "omt" /\ queue # << >> /\ Len(leaf_node_file') = Len(leaf_node_file) + 1

\* C25: the leaf the OMT packer writes for the dequeued range (left, right) counts
\* right - left objects, they are the edges at [left, right) of the working copy in that
\* order, and its rectangle is the smallest one around the end points of those edges
C25_OMTLeafContents ==
    [][OMTLeafWritten =>
        LET r == Head(queue)
            leaf == leaf_node_file'[Len(leaf_node_file')]
        IN /\ leaf.object_count = r.right - r.left
           /\ leaf.object_count <= LEAF_NODE_SIZE
           /\ \A k \in 1..leaf.object_count : leaf.objects[k] = leaves[r.left + k]
           /\ TightAround(leaf.minimum_bounding_rectangle, EndPoints(m_coordinate_list, {leaves[r.left + k] : k \in 1..(r.right - r.left)}))]_vars

\* C25 witness: a finished OMT build has written a leaf of two edges with different end
\* points
C25_Witness ==
    /\ packing_method = "OMT"
    /\ pc = "built"
    /\ \E i \in 1..Len(leaf_node_file) : /\ leaf_node_file[i].object_count = 2
                                         /\ leaf_node_file[i].objects[1].u # leaf_node_file[i].objects[2].u

----------------------------------------------------------------------------
(* C26: the node array and the leaf file as a tree                         *)

\* the counted child entries of a node array of one kind (leaf or node), each as
\* << position of the node, position of the entry >>
ChildEntries(tree, is_leaf) ==
    {e \in (1..Len(tree)) \X (1..BRANCHING_FACTOR) : e[2] <= tree[e[1]].child_count /\ tree[e[1]].children[e[2]].is_leaf = is_leaf}

\* the index a child entry holds
EntryIndex(tree, e) == tree[e[1]].children[e[2]].index

RECURSIVE ReachedFrom(_, _)
\* the nodes (0-based) reached from the nodes of S along non-leaf child entries
ReachedFrom(tree, S) ==
    LET T == S \cup {EntryIndex(tree, e) : e \in {f \in ChildEntries(tree, FALSE) : (f[1] - 1) \in S}}
    IN IF T = S THEN S ELSE ReachedFrom(tree, T)

\* C26: after a build the node array and the leaf file form a tree: every node but the
\* root is named by exactly one non-leaf child entry and the root by none, every leaf of
\* the leaf file by exactly one leaf child entry, and every node and every leaf is
\* reached from the node at index 0
C26_Tree ==
    BuildDone =>
        /\ Len(m_search_tree) >= 1
        /\ \A e \in ChildEntries(m_search_tree, FALSE) : EntryIndex(m_search_tree, e) \in 1..(Len(m_search_tree) - 1)
        /\ \A e \in ChildEntries(m_search_tree, TRUE) : EntryIndex(m_search_tree, e) \in 0..(Len(leaf_node_file) - 1)
        /\ \A n \in 1..(Len(m_search_tree) - 1) : Cardinality({e \in ChildEntries(m_search_tree, FALSE) : EntryIndex(m_search_tree, e) = n}) = 1
        /\ \A l \in 0..(Len(leaf_node_file) - 1) : Cardinality({e \in ChildEntries(m_search_tree, TRUE) : EntryIndex(m_search_tree, e) = l}) = 1
        /\ ReachedFrom(m_search_tree, {0}) = 0..(Len(m_search_tree) - 1)
        /\ {EntryIndex(m_search_tree, e) : e \in {f \in ChildEntries(m_search_tree, TRUE) : (f[1] - 1) \in ReachedFrom(m_search_tree, {0})}} = 0..(Len(leaf_node_file) - 1)

\* C26 witness: a finished OMT build whose root has nodes below it and they the leaves
C26_Witness ==
    /\ packing_method = "OMT"
    /\ pc = "built"
    /\ Cardinality(ChildEntries(m_search_tree, FALSE)) >= 2
    /\ Cardinality(ChildEntries(m_search_tree, TRUE)) >= 4

----------------------------------------------------------------------------
(* C27: the instance the building constructor returns                      *)

\* the answer of the built instance (m_search_tree, m_leaves) to the query that the
\* opened instance has answered
BuiltAnswer ==
    CASE query.kind = "nearest" -> Nearest(m_coordinate_list, m_search_tree, m_leaves, query.input_coordinate, query.filter, query.terminate, tie)
      [] query.kind = "nearest_max" -> NearestMax(m_coordinate_list, m_search_tree, m_leaves, query.input_coordinate, query.max_results, tie)
      [] query.kind = "box" -> SearchInBox(m_coordinate_list, m_search_tree, m_leaves, query.search_rectangle)

\* C27: when the building constructor has returned, the instance has as many leaves
\* mapped as were written, the leaves of the leaf file, and it answers a query as the
\* instance opened on the two files does
C27_BuiltAsOpened ==
    /\ BuildDone => m_leaves = leaf_node_file
    /\ pc \in {"open", "answered"} => m_search_tree = o_search_tree /\ m_leaves = o_leaves
    /\ pc = "answered" => BuiltAnswer.results = query.results /\ BuiltAnswer.ub = query.ub

\* C27 for the two packers that end with MapLeafNodesFile
C27_BuiltAsOpenedHilbertSTR == packing_method # "OMT" => C27_BuiltAsOpened

\* C27, the node array alone: whatever the packer, the built instance holds the nodes
\* that the opened instance reads from the node file
C27_SameNodes == pc \in {"open", "answered"} => m_search_tree = o_search_tree

====
